---- MODULE Spec2Model ----
(***************************************************************************)
(* Model of the error deduplication cache of @osmanekrem/error-handler:     *)
(* ErrorCache (src/src/cache/ErrorCache.ts) and the DeduplicationService    *)
(* wrapped around it (src/src/cache/DeduplicationService.ts), and of the    *)
(* OptimizedErrorCache (src/src/cache/OptimizedErrorCache.ts), the          *)
(* CircuitBreaker (src/src/patterns/CircuitBreaker.ts) and retry            *)
(* (src/src/recovery/RetryDecorator.ts), each with specifications of its    *)
(* own that leave the other objects as constructed.                         *)
(*                                                                         *)
(* Strings are sequences of one-character strings.  A JavaScript Map is a   *)
(* sequence of entries in insertion order.  Times are milliseconds.         *)
(* Similarity scores are exact rationals <<numerator, denominator>>; the    *)
(* code computes them in IEEE doubles and divides by factors, which is      *)
(* 0.4 + 0.3 + 0.2 + 0.1; on every input of the model (and for all message  *)
(* lengths up to 40 and up to 5 shared context keys) the double comparison  *)
(* with 0.8 agrees with the rational one.                                   *)
(***************************************************************************)
EXTENDS Integers, Sequences, FiniteSets, TLC

(***************************************************************************)
(* Bounds of the model.                                                     *)
(***************************************************************************)
\* largest maxSize option the cache is constructed with
MaxMaxSize == 2
\* the clock advances MaxTicks times at most
MaxTicks == 2
\* milliseconds between two readings of the clock
TickMs == 150000
\* an entry's count is driven up to MaxCount
MaxCount == 2
\* addError calls recorded since the cache was last empty
MaxCalls == 3
\* an entry's count is driven up to MaxCadenceCount in SpecService
MaxCadenceCount == 50
\* the clock advances MaxServiceTicks times at most in SpecService
MaxServiceTicks == 3
\* the strings handed to the edit distance have MaxLen characters at most
MaxLen == 3
\* setBatch and getBatch are handed MaxBatch entries at most
MaxBatch == 2
\* largest failureThreshold option a breaker is constructed with
MaxThreshold == 2
\* largest halfOpenMaxCalls option a breaker is constructed with
MaxHalfOpenCalls == 2
\* execute calls that await fn() at the same time
MaxInFlight == 3
\* a breaker's failureCount, successCount and callCount are driven up to
\* MaxBreakerCount
MaxBreakerCount == 3
\* largest maxAttempts option retry is called with
MaxAttempts == 3

(***************************************************************************)
(* Program constants.                                                       *)
(***************************************************************************)
\* ErrorCache.ts:50 and DeduplicationService.ts:49, ttl: 300000
DefaultTtl == 300000
\* ErrorCache.ts:53, similarityThreshold: 0.8 as 8/10
ThresholdNum == 8
ThresholdDen == 10
\* ErrorCache.ts:236,242,247,253: the weights 0.4, 0.3, 0.2, 0.1 in tenths
WeightCode == 4
WeightMessage == 3
WeightStatus == 2
WeightContext == 1
WeightDen == 10
\* DeduplicationService.ts:191: 300000, count % 10
LogIntervalMs == 300000
LogEvery == 10
\* DeduplicationService.ts:199: count % 50
AlertEvery == 50

(***************************************************************************)
(* Signals: AppError values (code, message, statusCode, context).  The      *)
(* context is a list of <<key, value>> pairs in insertion order, keys       *)
(* distinct; hasContext is FALSE for an undefined context.                  *)
(***************************************************************************)
AppError(code, message, statusCode, hasContext, context) ==
  [code |-> code, message |-> message, statusCode |-> statusCode,
   hasContext |-> hasContext, context |-> context]

CodeDB == <<"D", "B">>
CodeVA == <<"V", "A">>
MsgABC == <<"a", "b", "c">>
MsgABD == <<"a", "b", "d">>
MsgADE == <<"a", "d", "e">>
MsgXYZ == <<"x", "y", "z">>
CtxAB == << <<"a", 1>>, <<"b", 2>> >>
CtxBA == << <<"b", 2>>, <<"a", 1>> >>

S1 == AppError(CodeDB, MsgABC, 500, FALSE, <<>>)
S2 == AppError(CodeDB, MsgABC, 400, FALSE, <<>>)
S3 == AppError(CodeDB, MsgABD, 500, FALSE, <<>>)
S4 == AppError(CodeDB, MsgADE, 500, FALSE, <<>>)
S5 == AppError(CodeDB, MsgXYZ, 500, FALSE, <<>>)
S6 == AppError(CodeVA, MsgABC, 500, FALSE, <<>>)
S7 == AppError(CodeDB, MsgABC, 500, TRUE, CtxAB)
S8 == AppError(CodeDB, MsgABC, 500, TRUE, CtxBA)
S9 == AppError(CodeVA, MsgXYZ, 500, FALSE, <<>>)

\* two messages of 20 characters that differ in one character
Msg20A == <<"q", "u", "e", "r", "y", " ", "f", "a", "i", "l", "e", "d", " ",
            "o", "n", " ", "n", "o", "d", "e">>
Msg20B == <<"q", "u", "e", "r", "y", " ", "f", "a", "i", "l", "e", "d", " ",
            "o", "n", " ", "n", "o", "d", "a">>
\* contexts that share all, some or none of their keys with CtxAB, and {}
CtxA == << <<"a", 1>> >>
CtxA2B == << <<"a", 2>>, <<"b", 2>> >>
CtxC == << <<"c", 3>> >>
CtxEmpty == <<>>

S10 == AppError(CodeDB, Msg20A, 500, FALSE, <<>>)
S11 == AppError(CodeDB, Msg20B, 500, FALSE, <<>>)
S12 == AppError(CodeVA, MsgABC, 500, TRUE, CtxAB)
S13 == AppError(CodeDB, MsgABC, 500, TRUE, CtxA2B)
S14 == AppError(CodeDB, MsgABC, 500, TRUE, CtxC)
S15 == AppError(CodeDB, MsgABC, 500, TRUE, CtxEmpty)
S16 == AppError(CodeDB, MsgABC, 500, TRUE, CtxA)
S17 == AppError(CodeVA, Msg20A, 500, FALSE, <<>>)
S18 == AppError(CodeVA, MsgXYZ, 300, FALSE, <<>>)

\* a message two characters from "abc" and one from "xyz"
MsgABZ == <<"a", "b", "z">>
S19 == AppError(CodeDB, MsgABZ, 500, FALSE, <<>>)

\* a code and a message with a colon in them: "D" with "B:a", "D:B" with "a"
CodeD == <<"D">>
CodeDColonB == <<"D", ":", "B">>
MsgBColonA == <<"B", ":", "a">>
MsgA == <<"a">>
S20 == AppError(CodeD, MsgBColonA, 500, FALSE, <<>>)
S21 == AppError(CodeDColonB, MsgA, 500, FALSE, <<>>)

Signals == {S1, S2, S3, S4, S5, S6, S7, S8, S9,
            S10, S11, S12, S13, S14, S15, S16, S17, S18, S19, S20, S21}

(***************************************************************************)
(* Key derivation.                                                          *)
(***************************************************************************)
Digit(n) == CASE n = 0 -> "0" [] n = 1 -> "1" [] n = 2 -> "2" [] n = 3 -> "3"
              [] n = 4 -> "4" [] n = 5 -> "5" [] n = 6 -> "6" [] n = 7 -> "7"
              [] n = 8 -> "8" [] OTHER -> "9"

\* JSON.stringify of one property: "key":value
StringifyPair(p) == <<"\"", p[1], "\"", ":", Digit(p[2])>>

RECURSIVE StringifyPairs(_)
StringifyPairs(ctx) ==
  IF ctx = <<>> THEN <<>>
  ELSE IF Len(ctx) = 1 THEN StringifyPair(ctx[1])
  ELSE StringifyPair(ctx[1]) \o <<",">> \o StringifyPairs(Tail(ctx))

\* JSON.stringify(context): the properties in insertion order
JsonStringify(ctx) == <<"{">> \o StringifyPairs(ctx) \o <<"}">>

\* `${error.code}:${error.message}:${context}`
defaultKeyGenerator(error) ==
  LET context == IF error.hasContext THEN JsonStringify(error.context) ELSE <<>>
  IN error.code \o <<":">> \o error.message \o <<":">> \o context

generateKey(error) ==
  LET context == IF error.hasContext THEN JsonStringify(error.context) ELSE <<>>
  IN error.code \o <<":">> \o error.message \o <<":">> \o context

(***************************************************************************)
(* Similarity scorer.                                                       *)
(***************************************************************************)
Max2(a, b) == IF a >= b THEN a ELSE b
Min3(a, b, c) == IF a <= b /\ a <= c THEN a ELSE IF b <= c THEN b ELSE c

\* a row fill that charges a substitution like a deletion and an insertion
RECURSIVE FillRowSubstitutionCostsTwo(_, _, _, _, _)
FillRowSubstitutionCostsTwo(str1, str2, j, prev, row) ==
  LET i == Len(row)
  IN IF i >= Len(prev) THEN row
     ELSE LET indicator == IF str1[i] = str2[j] THEN 0 ELSE 2
              cell == Min3(row[i] + 1, prev[i + 1] + 1, prev[i] + indicator)
          IN FillRowSubstitutionCostsTwo(str1, str2, j, prev, Append(row, cell))

\* row j of the matrix, cells 0..i filled, given row j - 1 (prev); rows are
\* sequences whose element i + 1 is matrix[j][i], so every row has
\* str1.length + 1 cells and row j is full when it is as long as row j - 1
RECURSIVE FillRow(_, _, _, _, _)
FillRow(str1, str2, j, prev, row) ==
  LET i == Len(row)
  IN IF i >= Len(prev) THEN row
     ELSE LET indicator == IF str1[i] = str2[j] THEN 0 ELSE 1
              cell == Min3(row[i] + 1, prev[i + 1] + 1, prev[i] + indicator)
          IN FillRow(str1, str2, j, prev, Append(row, cell))

RECURSIVE MatrixRow(_, _, _)
MatrixRow(str1, str2, j) ==
  IF j = 0 THEN [i \in 1..(Len(str1) + 1) |-> i - 1]
  ELSE FillRow(str1, str2, j, MatrixRow(str1, str2, j - 1), <<j>>)

\* matrix[str2.length][str1.length]
levenshteinDistance(str1, str2) ==
  MatrixRow(str1, str2, Len(str2))[Len(str1) + 1]

\* 1 - distance / maxLength, as <<maxLength - distance, maxLength>>
calculateStringSimilarity(str1, str2) ==
  LET maxLength == Max2(Len(str1), Len(str2))
  IN IF maxLength = 0 THEN <<1, 1>>
     ELSE <<maxLength - levenshteinDistance(str1, str2), maxLength>>

\* Object.keys(context)
ObjectKeys(ctx) == [i \in 1..Len(ctx) |-> ctx[i][1]]
\* context[key], for a key of the context
Lookup(ctx, key) == ctx[CHOOSE i \in 1..Len(ctx) : ctx[i][1] = key][2]

\* a context scorer without the two guards for a missing context
calculateContextSimilarityUnguarded(e1, e2) ==
  LET keys2 == {e2.context[i][1] : i \in 1..Len(e2.context)}
      commonKeys == {i \in 1..Len(e1.context) : e1.context[i][1] \in keys2}
      similarValues ==
        {i \in commonKeys :
           \E j \in 1..Len(e2.context) : e2.context[j] = e1.context[i]}
  IN IF commonKeys = {} THEN <<0, 1>>
     ELSE <<Cardinality(similarValues), Cardinality(commonKeys)>>

\* similarValues / commonKeys.length, as a pair
calculateContextSimilarity(e1, e2) ==
  IF ~e1.hasContext /\ ~e2.hasContext THEN <<1, 1>>
  ELSE IF ~e1.hasContext \/ ~e2.hasContext THEN <<0, 1>>
  ELSE LET keys2 == {ObjectKeys(e2.context)[i] : i \in 1..Len(e2.context)}
           commonKeys == {i \in 1..Len(e1.context) : e1.context[i][1] \in keys2}
           similarValues ==
             {i \in commonKeys :
                Lookup(e1.context, e1.context[i][1]) = Lookup(e2.context, e1.context[i][1])}
       IN IF commonKeys = {} THEN <<0, 1>>
          ELSE <<Cardinality(similarValues), Cardinality(commonKeys)>>

\* a scorer that gives the code the weight of the context and the context
\* that of the code
calculateSimilaritySwappedWeights(error1, error2) ==
  LET m == calculateStringSimilarity(error1.message, error2.message)
      c == calculateContextSimilarity(error1, error2)
      codeScore == IF error1.code = error2.code THEN WeightContext ELSE 0
      statusScore == IF error1.statusCode = error2.statusCode THEN WeightStatus ELSE 0
  IN << (codeScore + statusScore) * m[2] * c[2]
          + WeightMessage * m[1] * c[2]
          + WeightCode * c[1] * m[2],
        WeightDen * m[2] * c[2] >>

\* score / factors as <<numerator, denominator>>; factors is the sum of the
\* four weights, 1
calculateSimilarity(error1, error2) ==
  LET m == calculateStringSimilarity(error1.message, error2.message)
      c == calculateContextSimilarity(error1, error2)
      codeScore == IF error1.code = error2.code THEN WeightCode ELSE 0
      statusScore == IF error1.statusCode = error2.statusCode THEN WeightStatus ELSE 0
  IN << (codeScore + statusScore) * m[2] * c[2]
          + WeightMessage * m[1] * c[2]
          + WeightContext * c[1] * m[2],
        WeightDen * m[2] * c[2] >>

\* the last reading of the clock
MaxTime == MaxTicks * TickMs

\* the time the clock moves on between two readings within one call
Elapsed == {0, TickMs, 2 * TickMs}

\* a >= b for rationals with positive denominators
RatGE(a, b) == a[1] * b[2] >= b[1] * a[2]

\* the signals the scorer is called with on its own, three of them with
\* messages of 20 characters
ScoreSignals == {S1, S2, S6, S7, S10, S11, S12, S13, S14, S15, S16, S17}

\* calculateSimilarity over the signals, computed once (comparing the table
\* with itself has it tabulated as a whole)
SimilarityTable ==
  LET table == [p \in {<<error1, error2>> : error1, error2 \in Signals}
                  |-> calculateSimilarity(p[1], p[2])]
  IN IF table = table THEN table ELSE table

\* the score, from the table
Similarity(error1, error2) == SimilarityTable[<<error1, error2>>]

(***************************************************************************)
(* State.                                                                   *)
(***************************************************************************)
VARIABLES
  cache,    \* ErrorCache.cache: the Map's entries in insertion order
  options,  \* ErrorCache.options: ttl, maxSize, similarityThreshold
  enabled,  \* DeduplicationService.options.enabled
  now,      \* the clock: Date.now()
  result,   \* what the last call returned
  calls,    \* history: the addError calls made since the cache was empty
  trace     \* what the last call did for its observers, in order: the
            \* callbacks it invoked and the decisions it computed


\* a CachedError
CachedError(error, timestamp, count, lastOccurrence, key) ==
  [error |-> error, timestamp |-> timestamp, count |-> count,
   lastOccurrence |-> lastOccurrence, key |-> key]

NoError == AppError(<<>>, <<>>, 0, FALSE, <<>>)
NoEntry == CachedError(NoError, 0, 0, 0, <<>>)

\* ErrorCacheStats; hitRate in hundredths, hasErrors FALSE when oldestError
\* and newestError are undefined
NoStats ==
  [totalErrors |-> 0, uniqueErrors |-> 0, duplicateErrors |-> 0, hitRate |-> 0,
   hasErrors |-> FALSE, oldestError |-> 0, newestError |-> 0]

\* the values a call returns; the fields a call does not return keep the
\* values given here
NoResult ==
  [op |-> "none", error |-> NoError, isDuplicate |-> FALSE, hasEntry |-> FALSE,
   cachedError |-> NoEntry, shouldLog |-> FALSE, shouldAlert |-> FALSE,
   deduplicationKey |-> <<>>, cleared |-> 0, removed |-> FALSE,
   stats |-> NoStats, errors |-> <<>>, other |-> NoError,
   score |-> <<0, 1>>, contextScore |-> <<0, 1>>,
   str1 |-> <<>>, str2 |-> <<>>, distance |-> 0]

Keys == {defaultKeyGenerator(s) : s \in Signals}

(***************************************************************************)
(* ErrorCache.                                                              *)
(***************************************************************************)
\* this.cache.get(key): the index of the entry stored under key, 0 if none
MapGet(c, key) ==
  IF \E i \in 1..Len(c) : c[i].key = key
  THEN CHOOSE i \in 1..Len(c) : c[i].key = key
  ELSE 0

\* this.cache.delete(key)
MapDelete(c, key) == SelectSeq(c, LAMBDA e : e.key # key)

\* a scan that needs a score above the threshold
findSimilarErrorStrict(c, error, opts) ==
  LET hits == {i \in 1..Len(c) :
                 ~RatGE(opts.similarityThreshold, Similarity(error, c[i].error))}
  IN IF hits = {} THEN 0 ELSE CHOOSE i \in hits : \A j \in hits : i <= j

\* a scan that returns the last entry that scores at least the threshold
findSimilarErrorLast(c, error, opts) ==
  LET hits == {i \in 1..Len(c) :
                 RatGE(Similarity(error, c[i].error), opts.similarityThreshold)}
  IN IF hits = {} THEN 0 ELSE CHOOSE i \in hits : \A j \in hits : i >= j

\* the first entry, in the Map's order, that scores at least the threshold;
\* 0 for null
findSimilarError(c, error, opts) ==
  LET hits == {i \in 1..Len(c) :
                 RatGE(Similarity(error, c[i].error), opts.similarityThreshold)}
  IN IF hits = {} THEN 0 ELSE CHOOSE i \in hits : \A j \in hits : i <= j

\* an expiry test that fires at the ttl itself
ExpiredAtTtl(e, t, opts) == t - e.timestamp >= opts.ttl

\* whether clearExpired deletes the entry at time t
Expired(e, t, opts) == t - e.timestamp > opts.ttl

\* a sweep that ages entries from their last occurrence
clearExpiredByLastOccurrence(c, t, opts) ==
  SelectSeq(c, LAMBDA e : ~(t - e.lastOccurrence > opts.ttl))

\* the Map after clearExpired at time t
clearExpired(c, t, opts) == SelectSeq(c, LAMBDA e : ~Expired(e, t, opts))

\* a sort that puts the entries with the lowest count first
RECURSIVE InsertSortedByCount(_, _)
InsertSortedByCount(sorted, e) ==
  IF sorted = <<>> THEN <<e>>
  ELSE IF sorted[Len(sorted)].count <= e.count THEN Append(sorted, e)
  ELSE Append(InsertSortedByCount(SubSeq(sorted, 1, Len(sorted) - 1), e),
              sorted[Len(sorted)])

\* Array.prototype.sort by timestamp: stable
RECURSIVE InsertSorted(_, _)
InsertSorted(sorted, e) ==
  IF sorted = <<>> THEN <<e>>
  ELSE IF sorted[Len(sorted)].timestamp <= e.timestamp THEN Append(sorted, e)
  ELSE Append(InsertSorted(SubSeq(sorted, 1, Len(sorted) - 1), e), sorted[Len(sorted)])

\* a sort that puts the newest entry first
RECURSIVE SortNewestFirst(_)
SortNewestFirst(c) ==
  IF c = <<>> THEN <<>>
  ELSE <<c[Len(c)]>> \o SortNewestFirst(SubSeq(c, 1, Len(c) - 1))

RECURSIVE SortByTimestamp(_)
SortByTimestamp(c) ==
  IF c = <<>> THEN <<>>
  ELSE InsertSorted(SortByTimestamp(SubSeq(c, 1, Len(c) - 1)), c[Len(c)])

\* cleanup whose capacity step keeps one entry too many
cleanupOffByOne(c, t, opts) ==
  LET swept == clearExpired(c, t, opts)
  IN IF Len(swept) > opts.maxSize + 1
     THEN LET errors == SortByTimestamp(swept)
              toRemove == {errors[i].key : i \in 1..(Len(swept) - opts.maxSize - 1)}
          IN SelectSeq(swept, LAMBDA e : e.key \notin toRemove)
     ELSE swept

\* the Map after cleanup; t is the Date.now() of its clearExpired
cleanup(c, t, opts) ==
  LET swept == clearExpired(c, t, opts)
  IN IF Len(swept) > opts.maxSize
     THEN LET errors == SortByTimestamp(swept)
              toRemove == {errors[i].key : i \in 1..(Len(swept) - opts.maxSize)}
          IN SelectSeq(swept, LAMBDA e : e.key \notin toRemove)
     ELSE swept

\* an update that restarts the entry's lifetime
TouchResetsTimestamp(c, i, t) ==
  [c EXCEPT ![i] = [@ EXCEPT !.count = @ + 1, !.lastOccurrence = t, !.timestamp = t]]

\* existing.count++; existing.lastOccurrence = now
Touch(c, i, t) ==
  [c EXCEPT ![i] = [@ EXCEPT !.count = @ + 1, !.lastOccurrence = t]]

\* addError: the Map afterwards and the value returned.  The call reads the
\* clock twice: t is `new Date()`, which stamps the entry, and sweepAt is the
\* Date.now() of the clearExpired that cleanup runs after a new entry was set
addError(c, error, t, sweepAt, opts) ==
  LET key == defaultKeyGenerator(error)
      existing == MapGet(c, key)
      similarError == findSimilarError(c, error, opts)
      cachedError == CachedError(error, t, 1, t, key)
  IN IF existing # 0
     THEN [cache |-> Touch(c, existing, t), isDuplicate |-> TRUE,
           cachedError |-> Touch(c, existing, t)[existing]]
     ELSE IF similarError # 0
     THEN [cache |-> Touch(c, similarError, t), isDuplicate |-> TRUE,
           cachedError |-> Touch(c, similarError, t)[similarError]]
     ELSE [cache |-> cleanup(Append(c, cachedError), sweepAt, opts),
           isDuplicate |-> FALSE, cachedError |-> cachedError]

\* history: no record is kept
NoCalls == [pure |-> FALSE, sigs |-> <<>>, dups |-> 0, evicted |-> FALSE]
\* history: the cache is empty and no call was made since
FreshCalls == [pure |-> TRUE, sigs |-> <<>>, dups |-> 0, evicted |-> FALSE]

\* history: the calls recorded after addError(error), how many of them
\* returned isDuplicate = true and whether one of them evicted an entry for
\* capacity; the record is dropped once it is full or the call's cleanup
\* swept an expired entry
CallsAfterAdd(c, error, t, sweepAt, opts) ==
  LET r == addError(c, error, t, sweepAt, opts)
  IN IF calls.pure /\ Len(calls.sigs) < MaxCalls
        /\ clearExpired(c, sweepAt, opts) = c
        /\ ~(sweepAt - t > opts.ttl)
     THEN [pure |-> TRUE, sigs |-> Append(calls.sigs, error),
           dups |-> IF r.isDuplicate THEN calls.dups + 1 ELSE calls.dups,
           evicted |-> calls.evicted
                         \/ (~r.isDuplicate /\ Len(c) + 1 > opts.maxSize)]
     ELSE NoCalls

\* addError(error); elapsed is the time the clock moves on between the two
\* readings of a call that sets a new entry (a call that finds an entry
\* reads the clock once)
AddError(error) ==
  \E elapsed \in Elapsed :
    LET r == addError(cache, error, now, now + elapsed, options)
    IN /\ now + elapsed <= MaxTime
       /\ r.isDuplicate => elapsed = 0
       /\ cache' = r.cache
       /\ now' = now + elapsed
       /\ result' = [NoResult EXCEPT !.op = "addError", !.error = error,
                       !.isDuplicate = r.isDuplicate, !.hasEntry = TRUE,
                       !.cachedError = r.cachedError]
       /\ calls' = CallsAfterAdd(cache, error, now, now + elapsed, options)
       /\ trace' = <<>>
       /\ UNCHANGED <<options, enabled>>

ClearExpired ==
  LET swept == clearExpired(cache, now, options)
  IN /\ cache' = swept
     /\ result' = [NoResult EXCEPT !.op = "clearExpired",
                     !.cleared = Len(cache) - Len(swept)]
     /\ calls' = IF swept = cache THEN calls ELSE NoCalls
     /\ trace' = <<>>
     /\ UNCHANGED <<options, enabled, now>>

Clear ==
  /\ cache' = <<>>
  /\ result' = [NoResult EXCEPT !.op = "clear"]
  /\ calls' = FreshCalls
  /\ trace' = <<>>
  /\ UNCHANGED <<options, enabled, now>>

RemoveError(key) ==
  /\ cache' = MapDelete(cache, key)
  /\ result' = [NoResult EXCEPT !.op = "removeError",
                  !.removed = (MapGet(cache, key) # 0)]
  /\ calls' = IF MapGet(cache, key) # 0 THEN NoCalls ELSE calls
  /\ trace' = <<>>
  /\ UNCHANGED <<options, enabled, now>>

\* calculateSimilarity(error1, error2) on its own: the score and its context
\* component
CalculateSimilarity(error1, error2) ==
  /\ result' = [NoResult EXCEPT !.op = "calculateSimilarity",
                  !.error = error1, !.other = error2,
                  !.score = Similarity(error1, error2),
                  !.contextScore = calculateContextSimilarity(error1, error2)]
  /\ trace' = <<>>
  /\ UNCHANGED <<cache, options, enabled, now, calls>>

\* calculateStringSimilarity(str1, str2) and levenshteinDistance(str1, str2)
\* on their own
CalculateStringSimilarity(str1, str2) ==
  /\ result' = [NoResult EXCEPT !.op = "calculateStringSimilarity",
                  !.str1 = str1, !.str2 = str2,
                  !.distance = levenshteinDistance(str1, str2),
                  !.score = calculateStringSimilarity(str1, str2)]
  /\ trace' = <<>>
  /\ UNCHANGED <<cache, options, enabled, now, calls>>

(***************************************************************************)
(* ErrorCache: statistics and the other read operations.                    *)
(***************************************************************************)
\* a sum that counts every entry once
RECURSIVE SumCountsOncePerEntry(_)
SumCountsOncePerEntry(c) ==
  IF c = <<>> THEN 0
  ELSE SumCountsOncePerEntry(SubSeq(c, 1, Len(c) - 1)) + 1

\* a sum that leaves out the entry inserted last
RECURSIVE SumCountsButLast(_)
SumCountsButLast(c) ==
  IF Len(c) <= 1 THEN 0
  ELSE SumCountsButLast(SubSeq(c, 1, Len(c) - 2)) + c[Len(c) - 1].count

\* errors.reduce((sum, cached) => sum + cached.count, 0)
RECURSIVE SumCounts(_)
SumCounts(c) ==
  IF c = <<>> THEN 0
  ELSE SumCounts(SubSeq(c, 1, Len(c) - 1)) + c[Len(c)].count

\* a rounding that always goes up
RoundHundredthsUp(num, den) == (100 * num + den - 1) \div den

\* Math.round(num / den * 100), for num >= 0 and den > 0: the nearest
\* integer, a half rounded up.  The code divides and multiplies in doubles;
\* the result is the same for every den below 40 (23 / 40 is the first
\* quotient whose double product, 57.49999999999999, falls short of the half).
RoundHundredths(num, den) == (200 * num + den) \div (2 * den)

\* Math.min(...) / Math.max(...) of the entries' timestamps
MinTimestamp(c) ==
  CHOOSE t \in {c[i].timestamp : i \in 1..Len(c)} :
    \A i \in 1..Len(c) : t <= c[i].timestamp
MaxTimestamp(c) ==
  CHOOSE t \in {c[i].timestamp : i \in 1..Len(c)} :
    \A i \in 1..Len(c) : t >= c[i].timestamp

\* getStats(); hitRate is in hundredths
getStats(c) ==
  LET totalErrors == SumCounts(c)
      uniqueErrors == Len(c)
      duplicateErrors == totalErrors - uniqueErrors
      hitRate == IF totalErrors > 0
                 THEN RoundHundredths(duplicateErrors, totalErrors) ELSE 0
  IN [totalErrors |-> totalErrors, uniqueErrors |-> uniqueErrors,
      duplicateErrors |-> duplicateErrors, hitRate |-> hitRate,
      hasErrors |-> Len(c) > 0,
      oldestError |-> IF Len(c) > 0 THEN MinTimestamp(c) ELSE 0,
      newestError |-> IF Len(c) > 0 THEN MaxTimestamp(c) ELSE 0]

\* AppError.getSeverity()
getSeverity(error) ==
  IF error.statusCode >= 500 THEN "critical"
  ELSE IF error.statusCode >= 400 THEN "high"
  ELSE IF error.statusCode >= 300 THEN "medium"
  ELSE "low"

\* Array.prototype.sort((a, b) => b[field] - a[field]) on a copy: stable,
\* largest first
RECURSIVE InsertDescending(_, _, _)
InsertDescending(sorted, e, field) ==
  IF sorted = <<>> THEN <<e>>
  ELSE IF sorted[Len(sorted)][field] >= e[field] THEN Append(sorted, e)
  ELSE Append(InsertDescending(SubSeq(sorted, 1, Len(sorted) - 1), e, field),
              sorted[Len(sorted)])

RECURSIVE SortDescending(_, _)
SortDescending(c, field) ==
  IF c = <<>> THEN <<>>
  ELSE InsertDescending(SortDescending(SubSeq(c, 1, Len(c) - 1), field),
                        c[Len(c)], field)

\* array.slice(0, limit), limit >= 0
Slice(array, limit) ==
  SubSeq(array, 1, IF limit <= Len(array) THEN limit ELSE Len(array))

\* the read operations leave every variable but result and trace alone
ReadOnly == UNCHANGED <<cache, options, enabled, now, calls>>

GetStats ==
  /\ result' = [NoResult EXCEPT !.op = "getStats", !.stats = getStats(cache)]
  /\ trace' = <<>>
  /\ ReadOnly

GetError(key) ==
  /\ result' = [NoResult EXCEPT !.op = "getError",
                  !.deduplicationKey = key,
                  !.hasEntry = (MapGet(cache, key) # 0),
                  !.cachedError = IF MapGet(cache, key) # 0
                                  THEN cache[MapGet(cache, key)] ELSE NoEntry]
  /\ trace' = <<>>
  /\ ReadOnly

GetAllErrors ==
  /\ result' = [NoResult EXCEPT !.op = "getAllErrors", !.errors = cache]
  /\ trace' = <<>>
  /\ ReadOnly

GetErrorsByCode(code) ==
  /\ result' = [NoResult EXCEPT !.op = "getErrorsByCode",
                  !.errors = SelectSeq(cache, LAMBDA cached : cached.error.code = code)]
  /\ trace' = <<>>
  /\ ReadOnly

GetErrorsBySeverity(severity) ==
  /\ result' = [NoResult EXCEPT !.op = "getErrorsBySeverity",
                  !.errors = SelectSeq(cache, LAMBDA cached :
                                         getSeverity(cached.error) = severity)]
  /\ trace' = <<>>
  /\ ReadOnly

GetMostFrequentErrors(limit) ==
  /\ result' = [NoResult EXCEPT !.op = "getMostFrequentErrors",
                  !.errors = Slice(SortDescending(cache, "count"), limit)]
  /\ trace' = <<>>
  /\ ReadOnly

\* a version that sorts the store itself
GetRecentErrorsInPlace(limit) ==
  /\ result' = [NoResult EXCEPT !.op = "getRecentErrors",
                  !.errors = Slice(SortDescending(cache, "lastOccurrence"), limit)]
  /\ trace' = <<>>
  /\ cache' = SortDescending(cache, "lastOccurrence")
  /\ UNCHANGED <<options, enabled, now, calls>>

GetRecentErrors(limit) ==
  /\ result' = [NoResult EXCEPT !.op = "getRecentErrors",
                  !.errors = Slice(SortDescending(cache, "lastOccurrence"), limit)]
  /\ trace' = <<>>
  /\ ReadOnly

IsDuplicate(error) ==
  /\ result' = [NoResult EXCEPT !.op = "isDuplicate", !.error = error,
                  !.isDuplicate = \/ MapGet(cache, defaultKeyGenerator(error)) # 0
                                  \/ findSimilarError(cache, error, options) # 0]
  /\ trace' = <<>>
  /\ ReadOnly

(***************************************************************************)
(* DeduplicationService.                                                    *)
(***************************************************************************)
\* a cadence that counts duplicates, not occurrences
shouldLogEveryTenthDuplicate(cachedError, t) ==
  (cachedError.count - 1) % LogEvery = 0 \/ t - cachedError.lastOccurrence > LogIntervalMs

\* shouldLogDuplicate, the clock read at time t
shouldLogDuplicate(cachedError, t) ==
  LET lastLogTime == cachedError.lastOccurrence
      timeSinceLastLog == t - lastLogTime
  IN cachedError.count % LogEvery = 0 \/ timeSinceLastLog > LogIntervalMs

\* a cadence that counts duplicates, not occurrences
shouldAlertEveryFiftiethDuplicate(cachedError) ==
  cachedError.count = 1 \/ (cachedError.count - 1) % AlertEvery = 0

shouldAlertDuplicate(cachedError) ==
  cachedError.count = 1 \/ cachedError.count % AlertEvery = 0

\* one step of a call's trace: a callback invoked with (error, cachedError),
\* or a decision computed from cachedError.  The callbacks are observers, as
\* the default ones are: they return and leave the entry alone.
TraceStep(step, error, cachedError) ==
  [step |-> step, error |-> error, cachedError |-> cachedError]

\* a disabled service that still suppresses the log
disabledBranchQuiet(error) ==
  [result |-> [NoResult EXCEPT !.op = "processError", !.error = error,
                 !.shouldLog = FALSE, !.shouldAlert = TRUE,
                 !.deduplicationKey = generateKey(error)],
   trace |-> <<>>]

\* processError when options.enabled is false: what it returns and does
disabledBranch(error) ==
  [result |-> [NoResult EXCEPT !.op = "processError", !.error = error,
                 !.shouldLog = TRUE, !.shouldAlert = TRUE,
                 !.deduplicationKey = generateKey(error)],
   trace |-> <<>>]

\* a duplicate branch that notifies the observer after deciding
duplicateBranchCallbackLast(error, cachedError, t) ==
  [result |-> [NoResult EXCEPT !.op = "processError", !.error = error,
                 !.isDuplicate = TRUE, !.hasEntry = TRUE,
                 !.cachedError = cachedError,
                 !.shouldLog = shouldLogDuplicate(cachedError, t),
                 !.shouldAlert = shouldAlertDuplicate(cachedError),
                 !.deduplicationKey = generateKey(error)],
   trace |-> << TraceStep("shouldLogDuplicate", error, cachedError),
                TraceStep("shouldAlertDuplicate", error, cachedError),
                TraceStep("onDuplicate", error, cachedError) >>]

\* processError when addError reported a duplicate: onDuplicate, then the
\* result with shouldLog and shouldAlert; shouldLogDuplicate reads the clock
\* at time t
duplicateBranch(error, cachedError, t) ==
  [result |-> [NoResult EXCEPT !.op = "processError", !.error = error,
                 !.isDuplicate = TRUE, !.hasEntry = TRUE,
                 !.cachedError = cachedError,
                 !.shouldLog = shouldLogDuplicate(cachedError, t),
                 !.shouldAlert = shouldAlertDuplicate(cachedError),
                 !.deduplicationKey = generateKey(error)],
   trace |-> << TraceStep("onDuplicate", error, cachedError),
                TraceStep("shouldLogDuplicate", error, cachedError),
                TraceStep("shouldAlertDuplicate", error, cachedError) >>]

\* a new-error branch that notifies nobody
newErrorBranchSilent(error) ==
  [result |-> [NoResult EXCEPT !.op = "processError", !.error = error,
                 !.shouldLog = TRUE, !.shouldAlert = TRUE,
                 !.deduplicationKey = generateKey(error)],
   trace |-> <<>>]

\* processError when addError reported a new error: onNewError(error), then
\* the result
newErrorBranch(error) ==
  [result |-> [NoResult EXCEPT !.op = "processError", !.error = error,
                 !.shouldLog = TRUE, !.shouldAlert = TRUE,
                 !.deduplicationKey = generateKey(error)],
   trace |-> << TraceStep("onNewError", error, NoEntry) >>]

\* processError; elapsed is the time the clock moves on between the two
\* readings of the call: addError's `new Date()`, then shouldLogDuplicate's
\* Date.now() for a duplicate (the onDuplicate callback runs between) and
\* clearExpired's Date.now() for a new error
ProcessError(error, elapsed) ==
  IF ~enabled
  THEN /\ result' = disabledBranch(error).result
       /\ trace' = disabledBranch(error).trace
       /\ UNCHANGED <<cache, options, enabled, now, calls>>
  ELSE LET r == addError(cache, error, now, now + elapsed, options)
           branch == IF r.isDuplicate
                     THEN duplicateBranch(error, r.cachedError, now + elapsed)
                     ELSE newErrorBranch(error)
       IN /\ cache' = r.cache
          /\ now' = now + elapsed
          /\ calls' = CallsAfterAdd(cache, error, now, now + elapsed, options)
          /\ result' = branch.result
          /\ trace' = branch.trace
          /\ UNCHANGED <<options, enabled>>

\* an updateOptions that keeps the cache it has
UpdateOptionsKeepsCache(opts, isEnabled) ==
  /\ options' = opts
  /\ enabled' = isEnabled
  /\ cache' = cache
  /\ result' = [NoResult EXCEPT !.op = "updateOptions",
                  !.cleared = Len(cache)]
  /\ calls' = FreshCalls
  /\ trace' = <<>>
  /\ UNCHANGED now

\* updateOptions: the options are merged and the cache is recreated, empty;
\* cleared records how many entries the cache it replaces held
UpdateOptions(opts, isEnabled) ==
  /\ options' = opts
  /\ enabled' = isEnabled
  /\ cache' = <<>>
  /\ result' = [NoResult EXCEPT !.op = "updateOptions",
                  !.cleared = Len(cache)]
  /\ calls' = FreshCalls
  /\ trace' = <<>>
  /\ UNCHANGED now

Enable ==
  /\ enabled' = TRUE
  /\ result' = [NoResult EXCEPT !.op = "enable"]
  /\ trace' = <<>>
  /\ UNCHANGED <<cache, options, now, calls>>

Disable ==
  /\ enabled' = FALSE
  /\ result' = [NoResult EXCEPT !.op = "disable"]
  /\ trace' = <<>>
  /\ UNCHANGED <<cache, options, now, calls>>

(***************************************************************************)
(* OptimizedErrorCache (src/src/cache/OptimizedErrorCache.ts): a Map of     *)
(* entries, the keys in order of access, and a periodic cleanup timer.      *)
(***************************************************************************)
VARIABLES
  lruCache,      \* OptimizedErrorCache.cache: the Map's entries in insertion order
  accessOrder,   \* OptimizedErrorCache.accessOrder: keys, least recently used first
  lruOptions,    \* OptimizedErrorCache.maxSize, ttl and cleanupInterval
  cleanupTimer,  \* OptimizedErrorCache.cleanupTimer: set or undefined, and when
                 \* the interval is next due
  lruResult,     \* what the last call on the OptimizedErrorCache returned
  recency,       \* history: the keys in the cache, in the order in which
                 \* they last were set or returned by a lookup
  destroyed      \* history: destroy() has returned

lruVars ==
  <<lruCache, accessOrder, lruOptions, cleanupTimer, lruResult, recency, destroyed>>

VARIABLES
  state,            \* CircuitBreaker.state
  failureCount,     \* CircuitBreaker.failureCount
  lastFailureTime,  \* CircuitBreaker.lastFailureTime, Undefined when unset
  nextAttemptTime,  \* CircuitBreaker.nextAttemptTime, Undefined when unset
  successCount,     \* CircuitBreaker.successCount
  callCount,        \* CircuitBreaker.callCount
  breakerOptions,   \* CircuitBreaker.options
  inFlight,         \* the execute calls that await fn()
  breakerResult,    \* what the last step of an execute call did
  episode           \* history: the fn calls started and the successes recorded
                    \* since the breaker last became HALF_OPEN

breakerVars ==
  <<state, failureCount, lastFailureTime, nextAttemptTime, successCount,
    callCount, breakerOptions, inFlight, breakerResult, episode>>

VARIABLES
  retryPc,       \* retry: where the call is
  retryOptions,  \* retry: retryOptions
  attempt,       \* retry: attempt
  lastError,     \* retry: lastError
  errors,        \* retry: errors
  wakeAt,        \* retry: when the pending sleep(delay) ends
  settled,       \* retry: how the returned promise settled
  invoked,       \* history: the outcomes of the fn() calls made, in order
  callbacks      \* history: the onRetry and onMaxRetriesExceeded calls made

retryVars ==
  <<retryPc, retryOptions, attempt, lastError, errors, wakeAt, settled,
    invoked, callbacks>>

\* a CachedError of the OptimizedErrorCache with the key it is stored under
LruEntry(key, error, timestamp, count, lastAccessed) ==
  [key |-> key, error |-> error, timestamp |-> timestamp, count |-> count,
   lastAccessed |-> lastAccessed]

\* the timer: undefined, or set with the time its interval is due
NoTimer == [armed |-> FALSE, due |-> 0]
Timer(due) == [armed |-> TRUE, due |-> due]

\* what a call did: key and value are the arguments of set, found and
\* value what get and has return, results the Map getBatch returns, in
\* insertion order, found what delete returns, removed the keys cleanup()
\* found expired, evicted the keys set made room with
NoLruResult ==
  [op |-> "none", key |-> "", found |-> FALSE, value |-> NoError,
   results |-> <<>>, removed |-> <<>>, evicted |-> <<>>]

\* the cache and the access order, as the methods below pass them on
LruState == [cache |-> lruCache, accessOrder |-> accessOrder]
NoLruState == [cache |-> <<>>, accessOrder |-> <<>>]

\* this.cache.set(key, value): a key already in the Map keeps its place
MapSet(c, entry) ==
  LET i == MapGet(c, entry.key)
  IN IF i = 0 THEN Append(c, entry) ELSE [c EXCEPT ![i] = entry]

\* indexOf and splice: the first occurrence of key leaves the order
removeFromAccessOrder(order, key) ==
  LET hits == {i \in 1..Len(order) : order[i] = key}
  IN IF hits = {} THEN order
     ELSE LET index == CHOOSE i \in hits : \A j \in hits : i <= j
          IN SubSeq(order, 1, index - 1) \o SubSeq(order, index + 1, Len(order))

\* an update that leaves a key already in the order where it is
updateAccessOrderKeepsPlace(order, key) ==
  IF \E i \in 1..Len(order) : order[i] = key THEN order ELSE Append(order, key)

\* the key moves to the end of the order
updateAccessOrder(order, key) == Append(removeFromAccessOrder(order, key), key)

\* the first key of the order leaves the cache and the order
\* an eviction that deletes the entry and leaves its key in accessOrder
evictOldestKeepsKey(c) ==
  IF Len(c.accessOrder) = 0 THEN c
  ELSE [cache |-> MapDelete(c.cache, c.accessOrder[1]),
        accessOrder |-> c.accessOrder]

evictOldest(c) ==
  IF Len(c.accessOrder) = 0 THEN c
  ELSE [cache |-> MapDelete(c.cache, c.accessOrder[1]),
        accessOrder |-> Tail(c.accessOrder)]

\* set(key, error) at time t
set(c, key, error, t, opts) ==
  LET room == IF Len(c.cache) >= opts.maxSize THEN evictOldest(c) ELSE c
  IN [cache |-> MapSet(room.cache, LruEntry(key, error, t, 1, t)),
      accessOrder |-> updateAccessOrder(room.accessOrder, key)]

\* get(key) at time t: the state it leaves, and found and value for what it
\* returns (found FALSE for undefined)
get(c, key, t, opts) ==
  LET i == MapGet(c.cache, key)
  IN IF i = 0
     THEN [state |-> c, found |-> FALSE, value |-> NoError]
     ELSE IF t - c.cache[i].timestamp > opts.ttl
     THEN [state |-> [cache |-> MapDelete(c.cache, key),
                      accessOrder |-> removeFromAccessOrder(c.accessOrder, key)],
           found |-> FALSE, value |-> NoError]
     ELSE [state |-> [cache |-> [c.cache EXCEPT ![i].lastAccessed = t,
                                                ![i].count = @ + 1],
                      accessOrder |-> updateAccessOrder(c.accessOrder, key)],
           found |-> TRUE, value |-> c.cache[i].error]

\* setBatch(entries) at time t: entries is a sequence of <<key, error>>
RECURSIVE setBatch(_, _, _, _)
setBatch(c, entries, t, opts) ==
  IF entries = <<>> THEN c
  ELSE setBatch(set(c, entries[1][1], entries[1][2], t, opts), Tail(entries), t, opts)

\* getBatch(keys) at time t: the state it leaves and the Map it returns
RECURSIVE getBatch(_, _, _, _, _)
getBatch(c, keys, t, opts, results) ==
  IF keys = <<>> THEN [state |-> c, results |-> results]
  ELSE LET key == keys[1]
           i == MapGet(c.cache, key)
       IN IF i # 0 /\ t - c.cache[i].timestamp <= opts.ttl
          THEN getBatch([cache |-> [c.cache EXCEPT ![i].lastAccessed = t,
                                                   ![i].count = @ + 1],
                         accessOrder |-> updateAccessOrder(c.accessOrder, key)],
                        Tail(keys), t, opts,
                        MapSet(results, [key |-> key, error |-> c.cache[i].error]))
          ELSE getBatch(c, Tail(keys), t, opts, results)

\* the keys cleanup() collects at time t
expiredKeys(c, t, opts) ==
  LET old == SelectSeq(c.cache, LAMBDA e : t - e.timestamp > opts.ttl)
  IN [i \in 1..Len(old) |-> old[i].key]

\* each key leaves the cache and the order
RECURSIVE removeKeys(_, _)
removeKeys(c, keys) ==
  IF keys = <<>> THEN c
  ELSE removeKeys([cache |-> MapDelete(c.cache, keys[1]),
                   accessOrder |-> removeFromAccessOrder(c.accessOrder, keys[1])],
                  Tail(keys))

\* cleanup() at time t
lruCleanup(c, t, opts) == removeKeys(c, expiredKeys(c, t, opts))

\* history: key was set or returned by a lookup
Used(r, key) == Append(SelectSeq(r, LAMBDA k : k # key), key)
RECURSIVE UsedAll(_, _)
UsedAll(r, keys) == IF keys = <<>> THEN r ELSE UsedAll(Used(r, keys[1]), Tail(keys))
\* history: the keys that left the cache leave the history
Present(r, c) == SelectSeq(r, LAMBDA k : MapGet(c.cache, k) # 0)

LruBecomes(c) ==
  /\ lruCache' = c.cache
  /\ accessOrder' = c.accessOrder

\* the other objects of the model stay as they are
ErrorCacheIdle == UNCHANGED <<cache, options, enabled, result, calls, trace>>
LruOnly == ErrorCacheIdle /\ UNCHANGED <<now, lruOptions, breakerVars, retryVars>>

\* history: the keys left in c, in the order r with the keys used moved up
RecencyAfter(r, used, c) == Present(UsedAll(r, used), c)

\* whether a call may still count a hit on the entries it reads
CountsWithin(c, bound) == \A i \in 1..Len(c.cache) : c.cache[i].count <= bound

Set(key, error) ==
  LET c == set(LruState, key, error, now, lruOptions)
  IN /\ LruBecomes(c)
     /\ lruResult' = [NoLruResult EXCEPT !.op = "set", !.key = key,
                        !.value = error,
                        !.evicted = SelectSeq(accessOrder,
                                      LAMBDA k : MapGet(c.cache, k) = 0)]
     /\ recency' = RecencyAfter(recency, <<key>>, c)
     /\ UNCHANGED <<cleanupTimer, destroyed>>
     /\ LruOnly

Get(key) ==
  LET r == get(LruState, key, now, lruOptions)
  IN /\ LruBecomes(r.state)
     /\ lruResult' = [NoLruResult EXCEPT !.op = "get", !.key = key,
                        !.found = r.found, !.value = r.value]
     /\ recency' = RecencyAfter(recency, IF r.found THEN <<key>> ELSE <<>>, r.state)
     /\ UNCHANGED <<cleanupTimer, destroyed>>
     /\ LruOnly

\* has(key): get(key) !== undefined
Has(key) ==
  LET r == get(LruState, key, now, lruOptions)
  IN /\ LruBecomes(r.state)
     /\ lruResult' = [NoLruResult EXCEPT !.op = "has", !.key = key,
                        !.found = r.found]
     /\ recency' = RecencyAfter(recency, IF r.found THEN <<key>> ELSE <<>>, r.state)
     /\ UNCHANGED <<cleanupTimer, destroyed>>
     /\ LruOnly

\* delete(key): true when the Map held the key
Delete(key) ==
  LET c == [cache |-> MapDelete(lruCache, key),
            accessOrder |-> removeFromAccessOrder(accessOrder, key)]
  IN /\ LruBecomes(IF MapGet(lruCache, key) # 0 THEN c ELSE LruState)
     /\ lruResult' = [NoLruResult EXCEPT !.op = "delete", !.key = key,
                        !.found = (MapGet(lruCache, key) # 0)]
     /\ recency' = Present(recency, c)
     /\ UNCHANGED <<cleanupTimer, destroyed>>
     /\ LruOnly

LruClear ==
  /\ LruBecomes(NoLruState)
  /\ lruResult' = [NoLruResult EXCEPT !.op = "clear"]
  /\ recency' = <<>>
  /\ UNCHANGED <<cleanupTimer, destroyed>>
  /\ LruOnly

SetBatch(entries) ==
  LET c == setBatch(LruState, entries, now, lruOptions)
  IN /\ LruBecomes(c)
     /\ lruResult' = [NoLruResult EXCEPT !.op = "setBatch"]
     /\ recency' = RecencyAfter(recency, [i \in 1..Len(entries) |-> entries[i][1]], c)
     /\ UNCHANGED <<cleanupTimer, destroyed>>
     /\ LruOnly

GetBatch(keys) ==
  LET r == getBatch(LruState, keys, now, lruOptions, <<>>)
  IN /\ LruBecomes(r.state)
     /\ lruResult' = [NoLruResult EXCEPT !.op = "getBatch", !.results = r.results]
     /\ recency' = RecencyAfter(recency,
                      SelectSeq(keys, LAMBDA k : MapGet(r.results, k) # 0), r.state)
     /\ UNCHANGED <<cleanupTimer, destroyed>>
     /\ LruOnly

\* the interval set by startCleanup() comes due: cleanup() runs, and the
\* interval is due again cleanupInterval later
CleanupTimerFires ==
  /\ cleanupTimer.armed
  /\ now >= cleanupTimer.due
  /\ LruBecomes(lruCleanup(LruState, now, lruOptions))
  /\ lruResult' = [NoLruResult EXCEPT !.op = "cleanup",
                     !.removed = expiredKeys(LruState, now, lruOptions)]
  /\ cleanupTimer' = Timer(cleanupTimer.due + lruOptions.cleanupInterval)
  /\ recency' = Present(recency, lruCleanup(LruState, now, lruOptions))
  /\ UNCHANGED destroyed
  /\ LruOnly

\* a destroy() that leaves the interval running
DestroyKeepsTimer ==
  /\ LruBecomes(NoLruState)
  /\ lruResult' = [NoLruResult EXCEPT !.op = "destroy"]
  /\ recency' = <<>>
  /\ destroyed' = TRUE
  /\ UNCHANGED cleanupTimer
  /\ LruOnly

\* destroy(): clearInterval, then clear()
Destroy ==
  /\ cleanupTimer' = NoTimer
  /\ LruBecomes(NoLruState)
  /\ lruResult' = [NoLruResult EXCEPT !.op = "destroy"]
  /\ recency' = <<>>
  /\ destroyed' = TRUE
  /\ LruOnly

\* the cache as the constructor leaves it with options

LruInit(opts) ==
  /\ lruCache = <<>>
  /\ accessOrder = <<>>
  /\ lruOptions = opts
  /\ cleanupTimer = Timer(opts.cleanupInterval)
  /\ lruResult = NoLruResult
  /\ recency = <<>>
  /\ destroyed = FALSE

\* the options the constructor takes when it is given none
DefaultLruOptions == [maxSize |-> 1000, ttl |-> 300000, cleanupInterval |-> 60000]

(***************************************************************************)
(* CircuitBreaker (src/src/patterns/CircuitBreaker.ts).  execute() runs up  *)
(* to `await fn()` in one step; the call is in flight until fn settles, and *)
(* the rest of execute() runs in a second step, so concurrent execute calls *)
(* interleave at the await.                                                 *)
(***************************************************************************)
\* an optional time that is unset
Undefined == 0 - 1

\* the fields of the breaker, as the methods below pass them on
Breaker ==
  [state |-> state, failureCount |-> failureCount,
   lastFailureTime |-> lastFailureTime, nextAttemptTime |-> nextAttemptTime,
   successCount |-> successCount, callCount |-> callCount]

\* the breaker as its field initialisers and reset() leave it
NewBreaker ==
  [state |-> "CLOSED", failureCount |-> 0, lastFailureTime |-> Undefined,
   nextAttemptTime |-> Undefined, successCount |-> 0, callCount |-> 0]

NoBreakerResult ==
  [op |-> "none", from |-> "CLOSED", invoked |-> FALSE, rejected |-> FALSE,
   code |-> "", at |-> 0]

NoEpisode == [starts |-> 0, successes |-> 0, failuresInRow |-> 0]

shouldAttemptReset(b, t) ==
  IF b.nextAttemptTime = Undefined THEN FALSE ELSE t >= b.nextAttemptTime

\* an onSuccess that leaves a HALF_OPEN breaker as it is
onSuccessStaysHalfOpen(b, opts) ==
  LET c == [b EXCEPT !.successCount = @ + 1]
  IN IF c.state = "CLOSED" THEN [c EXCEPT !.failureCount = 0] ELSE c

onSuccess(b, opts) ==
  LET c == [b EXCEPT !.successCount = @ + 1]
  IN IF c.state = "HALF_OPEN"
     THEN IF c.successCount >= opts.halfOpenMaxCalls
          THEN [c EXCEPT !.state = "CLOSED", !.failureCount = 0,
                         !.nextAttemptTime = Undefined]
          ELSE c
     ELSE IF c.state = "CLOSED" THEN [c EXCEPT !.failureCount = 0]
     ELSE c

\* an onFailure that opens the breaker one failure late
onFailureOpensLate(b, t, openAt, opts) ==
  LET c == [b EXCEPT !.failureCount = @ + 1, !.lastFailureTime = t]
  IN IF c.state = "CLOSED"
     THEN IF c.failureCount > opts.failureThreshold
          THEN [c EXCEPT !.state = "OPEN",
                         !.nextAttemptTime = openAt + opts.recoveryTimeout]
          ELSE c
     ELSE IF c.state = "HALF_OPEN"
     THEN [c EXCEPT !.state = "OPEN",
                    !.nextAttemptTime = openAt + opts.recoveryTimeout]
     ELSE c

\* onFailure.  It reads the clock twice when it opens the breaker: t is the
\* `new Date()` of lastFailureTime and openAt the Date.now() that
\* nextAttemptTime is counted from
onFailure(b, t, openAt, opts) ==
  LET c == [b EXCEPT !.failureCount = @ + 1, !.lastFailureTime = t]
  IN IF c.state = "CLOSED"
     THEN IF c.failureCount >= opts.failureThreshold
          THEN [c EXCEPT !.state = "OPEN",
                         !.nextAttemptTime = openAt + opts.recoveryTimeout]
          ELSE c
     ELSE IF c.state = "HALF_OPEN"
     THEN [c EXCEPT !.state = "OPEN",
                    !.nextAttemptTime = openAt + opts.recoveryTimeout]
     ELSE c

\* an execute that lets every call through once the recovery time has come
executeUnlimited(b, t, opts) ==
  LET reset == b.state = "OPEN" /\ shouldAttemptReset(b, t)
      c == IF reset THEN [b EXCEPT !.state = "HALF_OPEN", !.callCount = 0] ELSE b
  IN IF b.state = "OPEN" /\ ~reset
     THEN [breaker |-> b, invoked |-> FALSE]
     ELSE [breaker |-> [c EXCEPT !.callCount = @ + 1], invoked |-> TRUE]

\* an execute that takes the recovery time to have come when the breaker opens
executeResetsAtOnce(b, t, opts) ==
  LET reset == b.state = "OPEN"
      c == IF reset THEN [b EXCEPT !.state = "HALF_OPEN", !.callCount = 0] ELSE b
  IN IF c.state = "HALF_OPEN" /\ c.callCount >= opts.halfOpenMaxCalls
     THEN [breaker |-> c, invoked |-> FALSE]
     ELSE [breaker |-> [c EXCEPT !.callCount = @ + 1], invoked |-> TRUE]

\* execute(fn) at time t, up to the await: the breaker it leaves, and
\* invoked FALSE when it throws serviceUnavailable instead of calling fn
execute(b, t, opts) ==
  LET reset == b.state = "OPEN" /\ shouldAttemptReset(b, t)
      c == IF reset THEN [b EXCEPT !.state = "HALF_OPEN", !.callCount = 0] ELSE b
  IN IF b.state = "OPEN" /\ ~reset
     THEN [breaker |-> b, invoked |-> FALSE]
     ELSE IF c.state = "HALF_OPEN" /\ c.callCount >= opts.halfOpenMaxCalls
     THEN [breaker |-> c, invoked |-> FALSE]
     ELSE [breaker |-> [c EXCEPT !.callCount = @ + 1], invoked |-> TRUE]

BreakerBecomes(b) ==
  /\ state' = b.state
  /\ failureCount' = b.failureCount
  /\ lastFailureTime' = b.lastFailureTime
  /\ nextAttemptTime' = b.nextAttemptTime
  /\ successCount' = b.successCount
  /\ callCount' = b.callCount

BreakerOnly ==
  /\ ErrorCacheIdle
  /\ UNCHANGED <<now, breakerOptions, lruVars, retryVars>>

\* history after a step that leaves the breaker in newState: event is
\* "start" for a call of fn, "success" and "failure" for a settled one.  The
\* starts and successes are those of the present HALF_OPEN state, the row of
\* failures is that of the present CLOSED state since its last success
EpisodeAfter(newState, event) ==
  [starts |->
     IF newState # "HALF_OPEN" THEN 0
     ELSE (IF state = "HALF_OPEN" THEN episode.starts ELSE 0)
          + (IF event = "start" THEN 1 ELSE 0),
   successes |->
     IF newState # "HALF_OPEN" THEN 0
     ELSE (IF state = "HALF_OPEN" THEN episode.successes ELSE 0)
          + (IF event = "success" THEN 1 ELSE 0),
   failuresInRow |->
     IF newState # "CLOSED" \/ event = "success" THEN 0
     ELSE (IF state = "CLOSED" THEN episode.failuresInRow ELSE 0)
          + (IF event = "failure" THEN 1 ELSE 0)]

\* execute(fn) up to `await fn()`
Execute ==
  LET r == execute(Breaker, now, breakerOptions)
  IN /\ BreakerBecomes(r.breaker)
     /\ inFlight' = IF r.invoked THEN inFlight + 1 ELSE inFlight
     /\ breakerResult' = [op |-> "execute", from |-> state, invoked |-> r.invoked,
                          rejected |-> ~r.invoked,
                          code |-> IF r.invoked THEN "" ELSE "SERVICE_UNAVAILABLE",
                          at |-> now]
     /\ episode' = EpisodeAfter(r.breaker.state, IF r.invoked THEN "start" ELSE "none")
     /\ BreakerOnly

\* fn() of a call in flight resolves: execute goes on with onSuccess()
FnResolves ==
  /\ inFlight > 0
  /\ inFlight' = inFlight - 1
  /\ BreakerBecomes(onSuccess(Breaker, breakerOptions))
  /\ breakerResult' = [NoBreakerResult EXCEPT !.op = "fnResolved", !.from = state,
                                              !.at = now]
  /\ episode' = EpisodeAfter(onSuccess(Breaker, breakerOptions).state, "success")
  /\ BreakerOnly

\* fn() of a call in flight rejects: execute goes on with onFailure() and
\* rethrows; elapsed is the time the clock moves on between the two readings
\* of an onFailure that opens the breaker (one that does not reads it once)
FnRejects ==
  \E elapsed \in Elapsed :
    LET b == onFailure(Breaker, now, now + elapsed, breakerOptions)
    IN /\ inFlight > 0
       /\ now + elapsed <= MaxTime
       /\ (b.state = state \/ state = "OPEN") => elapsed = 0
       /\ inFlight' = inFlight - 1
       /\ BreakerBecomes(b)
       /\ now' = now + elapsed
       /\ breakerResult' = [NoBreakerResult EXCEPT !.op = "fnRejected",
                             !.from = state, !.rejected = TRUE, !.at = now]
       /\ episode' = EpisodeAfter(b.state, "failure")
       /\ ErrorCacheIdle
       /\ UNCHANGED <<breakerOptions, lruVars, retryVars>>

Reset ==
  /\ BreakerBecomes(NewBreaker)
  /\ breakerResult' = [NoBreakerResult EXCEPT !.op = "reset", !.from = state,
                                              !.at = now]
  /\ episode' = NoEpisode
  /\ UNCHANGED inFlight
  /\ BreakerOnly

BreakerInit(opts) ==
  /\ state = "CLOSED"
  /\ failureCount = 0
  /\ lastFailureTime = Undefined
  /\ nextAttemptTime = Undefined
  /\ successCount = 0
  /\ callCount = 0
  /\ breakerOptions = opts
  /\ inFlight = 0
  /\ breakerResult = NoBreakerResult
  /\ episode = NoEpisode

\* the options the constructor takes when it is given none
DefaultBreakerOptions ==
  [failureThreshold |-> 5, recoveryTimeout |-> 60000, monitoringPeriod |-> 10000,
   halfOpenMaxCalls |-> 3]

(***************************************************************************)
(* retry (src/src/recovery/RetryDecorator.ts).  The call runs up to         *)
(* `await fn()` or `await sleep(delay)` in one step and goes on when the     *)
(* awaited promise settles.  isRetryableAppError is imported from            *)
(* ../handlers/isAppError, whose text is src/README.md:822-864; the          *)
(* callbacks of the options return normally.                                *)
(***************************************************************************)
\* what fn throws: an AppError with its code, statusCode and isOperational,
\* or a value that is no AppError
Thrown(code, statusCode, isOperational, isAppError) ==
  [code |-> code, statusCode |-> statusCode, isOperational |-> isOperational,
   isAppError |-> isAppError]

\* createError.database(...), createError.validation(...), an AppError that
\* is not operational, and an Error that is no AppError and has no code
DatabaseError == Thrown("DATABASE_ERROR", 500, TRUE, TRUE)
ValidationFailure == Thrown("VALIDATION_ERROR", 400, TRUE, TRUE)
TimeoutError == Thrown("TIMEOUT", 408, TRUE, TRUE)
ProgrammerError == Thrown("INTERNAL_ERROR", 500, FALSE, TRUE)
PlainError == Thrown("", 0, FALSE, FALSE)
\* lastError before fn has thrown
Null == Thrown("null", 0, FALSE, FALSE)

\* README.md:862, const retryableStatusCodes
RetryableStatusCodes == {408, 429, 500, 502, 503, 504}

\* README.md:855-864: false for a value that is no AppError, false for an
\* AppError that is not operational, else whether its statusCode is listed
isRetryableAppError(error) ==
  IF ~error.isAppError THEN FALSE
  ELSE IF ~error.isOperational THEN FALSE
  ELSE error.statusCode \in RetryableStatusCodes

\* a check that takes every listed or unlisted AppError to be retryable
isRetryableErrorAlways(error, retryableErrors) == error.isAppError

isRetryableError(error, retryableErrors) ==
  IF isRetryableAppError(error) THEN TRUE
  ELSE IF retryableErrors # {} /\ error.code # "" /\ error.code \in retryableErrors
  THEN TRUE
  ELSE FALSE

RECURSIVE Pow2(_)
Pow2(n) == IF n <= 0 THEN 1 ELSE 2 * Pow2(n - 1)

calculateDelay(baseDelay, n, strategy) ==
  CASE strategy = "linear" -> baseDelay * n
    [] strategy = "exponential" -> baseDelay * Pow2(n - 1)
    [] OTHER -> baseDelay

\* how the promise retry returned has settled, if it has
Pending == [status |-> "pending", result |-> "", attempts |-> 0, errors |-> <<>>,
            error |-> Null]
Resolved(value, attempts, errs) ==
  [status |-> "resolved", result |-> value, attempts |-> attempts, errors |-> errs,
   error |-> Null]
Rejected(error) ==
  [status |-> "rejected", result |-> "", attempts |-> 0, errors |-> <<>>,
   error |-> error]

NoInvocations == [started |-> 0, thrown |-> <<>>]

RetryOnly ==
  /\ ErrorCacheIdle
  /\ UNCHANGED <<lruVars, breakerVars>>

\* retry(fn, options) is called
Retry(opts) ==
  /\ retryPc \in {"idle", "done"}
  /\ retryOptions' = opts
  /\ attempt' = 0
  /\ lastError' = Null
  /\ errors' = <<>>
  /\ wakeAt' = 0
  /\ callbacks' = <<>>
  /\ IF 0 < opts.maxAttempts
     THEN /\ retryPc' = "fn"
          /\ invoked' = [started |-> 1, thrown |-> <<>>]
          /\ settled' = Pending
     ELSE /\ retryPc' = "done"
          /\ invoked' = NoInvocations
          /\ settled' = Rejected(Null)
  /\ UNCHANGED now
  /\ RetryOnly

\* fn() resolves with value
FnReturns(value) ==
  /\ retryPc = "fn"
  /\ retryPc' = "done"
  /\ settled' = Resolved(value, attempt + 1, errors)
  /\ UNCHANGED <<retryOptions, attempt, lastError, errors, wakeAt, invoked,
                 callbacks, now>>
  /\ RetryOnly

\* a catch block that gives up one attempt early
catchGivesUpEarly(n, errs, error, opts, t) ==
  LET k == n + 1
      retryable == isRetryableError(error, opts.retryableErrors)
      exhausted == k + 1 >= opts.maxAttempts
  IN [attempt |-> k, errors |-> Append(errs, error),
      rethrow |-> ~retryable \/ exhausted,
      callbacks |->
        IF ~retryable THEN <<>>
        ELSE IF exhausted
        THEN (IF opts.onMaxRetriesExceeded
              THEN << <<"onMaxRetriesExceeded", error, k>> >> ELSE <<>>)
        ELSE (IF opts.onRetry THEN << <<"onRetry", error, k>> >> ELSE <<>>),
      wakeAt |-> IF ~retryable \/ exhausted THEN 0
                 ELSE t + calculateDelay(opts.delay, k, opts.backoff)]

\* a catch block that puts the newest error first
catchUnshifts(n, errs, error, opts, t) ==
  LET k == n + 1
      retryable == isRetryableError(error, opts.retryableErrors)
      exhausted == k >= opts.maxAttempts
  IN [attempt |-> k, errors |-> <<error>> \o errs,
      rethrow |-> ~retryable \/ exhausted,
      callbacks |->
        IF ~retryable THEN <<>>
        ELSE IF exhausted
        THEN (IF opts.onMaxRetriesExceeded
              THEN << <<"onMaxRetriesExceeded", error, k>> >> ELSE <<>>)
        ELSE (IF opts.onRetry THEN << <<"onRetry", error, k>> >> ELSE <<>>),
      wakeAt |-> IF ~retryable \/ exhausted THEN 0
                 ELSE t + calculateDelay(opts.delay, k, opts.backoff)]

\* a catch block that calls onRetry for the last failure as well
catchCallsOnRetryLast(n, errs, error, opts, t) ==
  LET k == n + 1
      retryable == isRetryableError(error, opts.retryableErrors)
      exhausted == k >= opts.maxAttempts
  IN [attempt |-> k, errors |-> Append(errs, error),
      rethrow |-> ~retryable \/ exhausted,
      callbacks |->
        IF ~retryable THEN <<>>
        ELSE (IF opts.onRetry THEN << <<"onRetry", error, k>> >> ELSE <<>>)
             \o (IF exhausted /\ opts.onMaxRetriesExceeded
                 THEN << <<"onMaxRetriesExceeded", error, k>> >> ELSE <<>>),
      wakeAt |-> IF ~retryable \/ exhausted THEN 0
                 ELSE t + calculateDelay(opts.delay, k, opts.backoff)]

\* the catch block at time t, with attempt n and errors errs, for the error
\* fn threw: the new attempt and errors, whether lastError is rethrown, the
\* callbacks called, and when the sleep ends if there is one
catchBlock(n, errs, error, opts, t) ==
  LET k == n + 1
      retryable == isRetryableError(error, opts.retryableErrors)
      exhausted == k >= opts.maxAttempts
  IN [attempt |-> k, errors |-> Append(errs, error),
      rethrow |-> ~retryable \/ exhausted,
      callbacks |->
        IF ~retryable THEN <<>>
        ELSE IF exhausted
        THEN (IF opts.onMaxRetriesExceeded
              THEN << <<"onMaxRetriesExceeded", error, k>> >> ELSE <<>>)
        ELSE (IF opts.onRetry THEN << <<"onRetry", error, k>> >> ELSE <<>>),
      wakeAt |-> IF ~retryable \/ exhausted THEN 0
                 ELSE t + calculateDelay(opts.delay, k, opts.backoff)]

\* fn() rejects with error
FnThrows(error) ==
  LET r == catchBlock(attempt, errors, error, retryOptions, now)
  IN /\ retryPc = "fn"
     /\ attempt' = r.attempt
     /\ lastError' = error
     /\ errors' = r.errors
     /\ callbacks' = callbacks \o r.callbacks
     /\ invoked' = [invoked EXCEPT !.thrown = Append(@, error)]
     /\ wakeAt' = r.wakeAt
     /\ IF r.rethrow
        THEN retryPc' = "done" /\ settled' = Rejected(error)
        ELSE retryPc' = "sleep" /\ settled' = Pending
     /\ UNCHANGED <<retryOptions, now>>
     /\ RetryOnly

\* sleep(delay) ends when the clock reaches wakeAt, and the loop goes round
SleepEnds ==
  /\ retryPc = "sleep"
  /\ now' = IF wakeAt > now THEN wakeAt ELSE now
  /\ IF attempt < retryOptions.maxAttempts
     THEN /\ retryPc' = "fn"
          /\ invoked' = [invoked EXCEPT !.started = @ + 1]
          /\ settled' = Pending
     ELSE /\ retryPc' = "done"
          /\ invoked' = invoked
          /\ settled' = Rejected(lastError)
  /\ UNCHANGED <<retryOptions, attempt, lastError, errors, wakeAt, callbacks>>
  /\ RetryOnly

RetryInit ==
  /\ retryPc = "idle"
  /\ retryOptions = [maxAttempts |-> 3, backoff |-> "exponential", delay |-> 0,
                     retryableErrors |-> {}, onRetry |-> FALSE,
                     onMaxRetriesExceeded |-> FALSE]
  /\ attempt = 0
  /\ lastError = Null
  /\ errors = <<>>
  /\ wakeAt = 0
  /\ settled = Pending
  /\ invoked = NoInvocations
  /\ callbacks = <<>>

\* the objects that a specification of another object leaves alone
OthersInit ==
  /\ LruInit(DefaultLruOptions)
  /\ BreakerInit(DefaultBreakerOptions)
  /\ RetryInit
OthersIdle == UNCHANGED <<lruVars, breakerVars, retryVars>>

\* the ErrorCache and the service a specification of another object leaves
\* alone, as their constructors leave them when given no options
DefaultOptions ==
  [ttl |-> DefaultTtl, maxSize |-> 1000,
   similarityThreshold |-> <<ThresholdNum, ThresholdDen>>]

(***************************************************************************)
(* The clock and the specifications.                                        *)
(***************************************************************************)
vars ==
  <<cache, options, enabled, now, result, calls, trace, lruVars, breakerVars,
    retryVars>>

MaxServiceTime == MaxServiceTicks * TickMs

\* the clock moves on by TickMs, up to limit
TickTo(limit) ==
  /\ now + TickMs <= limit
  /\ now' = now + TickMs
  /\ UNCHANGED <<cache, options, enabled, result, calls, trace>>
  /\ OthersIdle

Tick == TickTo(MaxTime)
ServiceTick == TickTo(MaxServiceTime)

\* the options a cache is constructed with
OptionChoices ==
  [ttl : {TickMs}, maxSize : 1..MaxMaxSize,
   similarityThreshold : {<<ThresholdNum, ThresholdDen>>}]

Init ==
  /\ cache = <<>>
  /\ options \in OptionChoices
  /\ enabled = TRUE
  /\ now = 0
  /\ result = NoResult
  /\ calls = FreshCalls
  /\ trace = <<>>
  /\ OthersInit

\* the entry addError(error) would fold the call into has room to count it
CountBelow(error, bound) ==
  LET r == addError(cache, error, now, now, options)
  IN r.isDuplicate => r.cachedError.count <= bound

\* the cache on its own: exact, similar, boundary and dissimilar signals
CacheSignals == {S1, S4, S5, S6}

Next ==
  \/ OthersIdle /\ \E s \in CacheSignals : CountBelow(s, MaxCount) /\ AddError(s)
  \/ OthersIdle /\ ClearExpired
  \/ OthersIdle /\ Clear
  \/ OthersIdle /\ \E s \in CacheSignals : RemoveError(defaultKeyGenerator(s))
  \/ Tick

Spec == Init /\ [][Next]_vars

\* key derivation: signals that share a key, contexts in both orders, and
\* colons in the code and the message
KeySignals == {S1, S2, S5, S7, S8, S20, S21}

NextKeys ==
  \/ OthersIdle /\ \E s \in KeySignals : CountBelow(s, MaxCount) /\ AddError(s)
  \/ OthersIdle /\ \E s \in KeySignals : RemoveError(defaultKeyGenerator(s))
  \/ OthersIdle /\ Clear
  \/ Tick

SpecKeys == Init /\ [][NextKeys]_vars

\* folding: two signals unlike each other and a third that is like both
FoldSignals == {S1, S5, S19}

NextFold ==
  \/ OthersIdle /\ \E s \in FoldSignals : CountBelow(s, MaxCount) /\ AddError(s)
  \/ OthersIdle /\ \E s \in FoldSignals : RemoveError(defaultKeyGenerator(s))
  \/ Tick

SpecFold == Init /\ [][NextFold]_vars

\* statistics: the cache with getStats
NextStats ==
  \/ OthersIdle /\ \E s \in CacheSignals : CountBelow(s, MaxCount) /\ AddError(s)
  \/ OthersIdle /\ ClearExpired
  \/ OthersIdle /\ Clear
  \/ OthersIdle /\ \E s \in CacheSignals : RemoveError(defaultKeyGenerator(s))
  \/ Tick
  \/ OthersIdle /\ GetStats

SpecStats == Init /\ [][NextStats]_vars

\* the read operations: a signal, one similar to it and one unlike both, of
\* another code and severity
ReadSignals == {S1, S4, S18}
\* the limits passed to getMostFrequentErrors and getRecentErrors
Limits == {1, MaxMaxSize}

NextReads ==
  \/ OthersIdle /\ \E s \in ReadSignals : CountBelow(s, MaxCount) /\ AddError(s)
  \/ OthersIdle /\ ClearExpired
  \/ Tick
  \/ OthersIdle /\ GetStats
  \/ OthersIdle /\ \E s \in ReadSignals : GetError(defaultKeyGenerator(s))
  \/ OthersIdle /\ GetAllErrors
  \/ OthersIdle /\ \E s \in ReadSignals : GetErrorsByCode(s.code)
  \/ OthersIdle /\ \E s \in ReadSignals : GetErrorsBySeverity(getSeverity(s))
  \/ OthersIdle /\ \E limit \in Limits : GetMostFrequentErrors(limit)
  \/ OthersIdle /\ \E limit \in Limits : GetRecentErrors(limit)
  \/ OthersIdle /\ \E s \in ReadSignals : IsDuplicate(s)

SpecReads == Init /\ [][NextReads]_vars

\* the scorer: pairs of signals with equal and different codes, messages,
\* statusCodes and contexts, and a store of signals whose messages are one
\* character apart or whose codes differ
BoundarySignals == {S10, S11, S17}

NextSimilarity ==
  \/ OthersIdle /\ \E error1, error2 \in ScoreSignals : CalculateSimilarity(error1, error2)
  \/ OthersIdle /\ \E s \in BoundarySignals :
       CountBelow(s, MaxCount) /\ AddError(s) /\ now' = now
  \/ OthersIdle /\ Clear

SpecSimilarity == Init /\ [][NextSimilarity]_vars

\* the edit distance: every pair of strings over Alphabet of MaxLen
\* characters at most
Alphabet == {"a", "b"}
Strings == UNION {[1..n -> Alphabet] : n \in 0..MaxLen}

NextStrings ==
  OthersIdle /\ \E str1, str2 \in Strings : CalculateStringSimilarity(str1, str2)

SpecStrings == Init /\ [][NextStrings]_vars

\* the service: a signal and one similar to it
ServiceSignals == {S1, S4}
NextService ==
  \/ OthersIdle /\ \E s \in ServiceSignals : \E d \in Elapsed :
       /\ ~enabled \/ CountBelow(s, MaxCadenceCount)
       /\ now + d <= MaxServiceTime
       /\ ProcessError(s, d)
  \/ OthersIdle /\ ClearExpired
  \/ OthersIdle /\ Clear
  \/ OthersIdle /\ Enable
  \/ OthersIdle /\ Disable
  \/ OthersIdle /\ \E opts \in OptionChoices : \E isEnabled \in BOOLEAN :
       UpdateOptions(opts, isEnabled)
  \/ ServiceTick

\* the service is constructed with enabled true (the default) or false
InitService ==
  /\ cache = <<>>
  /\ options \in OptionChoices
  /\ enabled \in BOOLEAN
  /\ now = 0
  /\ result = NoResult
  /\ calls = FreshCalls
  /\ trace = <<>>
  /\ OthersInit

SpecService == InitService /\ [][NextService]_vars

\* the service and its observers: a signal, one similar to it and one unlike
\* both, each entry counted up to MaxCount
CallbackSignals == {S1, S4, S5}

NextCallbacks ==
  \/ OthersIdle /\ \E s \in CallbackSignals : \E d \in Elapsed :
       /\ ~enabled \/ CountBelow(s, MaxCount)
       /\ now + d <= MaxTime
       /\ ProcessError(s, d)
  \/ OthersIdle /\ ClearExpired
  \/ OthersIdle /\ Clear
  \/ OthersIdle /\ Enable
  \/ OthersIdle /\ Disable
  \/ OthersIdle /\ \E opts \in OptionChoices : \E isEnabled \in BOOLEAN :
       UpdateOptions(opts, isEnabled)
  \/ Tick

SpecCallbacks == InitService /\ [][NextCallbacks]_vars

\* the ErrorCache and the service while another object is exercised
ErrorCacheInit ==
  /\ cache = <<>>
  /\ options = DefaultOptions
  /\ enabled = TRUE
  /\ now = 0
  /\ result = NoResult
  /\ calls = FreshCalls
  /\ trace = <<>>

\* the OptimizedErrorCache: three keys, each with its error, alone and in
\* batches of MaxBatch entries at most, every count driven up to MaxCount
LruInputs == {<<"k1", S1>>, <<"k2", S5>>, <<"k3", S6>>}
LruKeys == {e[1] : e \in LruInputs}
Batches(S) == UNION {[1..n -> S] : n \in 0..MaxBatch}
\* the options a cache is constructed with: every capacity that leaves a
\* key to be set when the cache is full
LruOptionChoices ==
  [maxSize : 1..(Cardinality(LruKeys) - 1), ttl : {TickMs},
   cleanupInterval : {TickMs}]
\* the clock runs until an entry set at the start has outlived ttl
LruTick == TickTo(lruOptions.ttl + TickMs)

NextLru ==
  \/ \E e \in LruInputs : Set(e[1], e[2])
  \/ \E key \in LruKeys :
       /\ CountsWithin(get(LruState, key, now, lruOptions).state, MaxCount)
       /\ Get(key)
  \/ \E key \in LruKeys :
       /\ CountsWithin(get(LruState, key, now, lruOptions).state, MaxCount)
       /\ Has(key)
  \/ \E key \in LruKeys : Delete(key)
  \/ LruClear
  \/ \E entries \in Batches(LruInputs) : SetBatch(entries)
  \/ \E keys \in Batches(LruKeys) :
       /\ CountsWithin(getBatch(LruState, keys, now, lruOptions, <<>>).state, MaxCount)
       /\ GetBatch(keys)
  \/ CleanupTimerFires
  \/ Destroy
  \/ LruTick

InitLru ==
  /\ ErrorCacheInit
  /\ \E opts \in LruOptionChoices : LruInit(opts)
  /\ BreakerInit(DefaultBreakerOptions)
  /\ RetryInit

SpecLru == InitLru /\ [][NextLru]_vars

\* the breaker: up to MaxInFlight concurrent execute calls, whose fn settles
\* either way at any later step
BreakerOptionChoices ==
  [failureThreshold : 1..MaxThreshold, recoveryTimeout : {TickMs},
   monitoringPeriod : {10000}, halfOpenMaxCalls : 1..MaxHalfOpenCalls]

NextBreaker ==
  \/ /\ execute(Breaker, now, breakerOptions).invoked
          => /\ inFlight < MaxInFlight
             /\ callCount < MaxBreakerCount \/ state = "OPEN"
     /\ Execute
  \/ successCount < MaxBreakerCount /\ FnResolves
  \/ failureCount < MaxBreakerCount /\ FnRejects
  \/ Reset
  \/ Tick

InitBreaker ==
  /\ ErrorCacheInit
  /\ LruInit(DefaultLruOptions)
  /\ \E opts \in BreakerOptionChoices : BreakerInit(opts)
  /\ RetryInit

SpecBreaker == InitBreaker /\ [][NextBreaker]_vars

\* a caller calls execute, and an fn in flight settles, within the counters
ExecuteWithinBounds ==
  /\ execute(Breaker, now, breakerOptions).invoked
       => /\ inFlight < MaxInFlight
          /\ callCount < MaxBreakerCount \/ state = "OPEN"
  /\ Execute
FnSettlesWithinBounds ==
  \/ successCount < MaxBreakerCount /\ FnResolves
  \/ failureCount < MaxBreakerCount /\ FnRejects

\* time keeps advancing, callers keep calling execute, and every fn that
\* was started settles
SpecBreakerFair ==
  /\ InitBreaker
  /\ [][NextBreaker]_vars
  /\ WF_vars(Tick)
  /\ WF_vars(ExecuteWithinBounds)
  /\ WF_vars(FnSettlesWithinBounds)

\* retry: every choice of options, and an fn that resolves with one of two
\* values or rejects with one of five errors each time it is called
RetryOptionChoices ==
  [maxAttempts : 0..MaxAttempts, backoff : {"linear", "exponential", "fixed"},
   delay : {0, TickMs}, retryableErrors : {{}, {"VALIDATION_ERROR"}},
   onRetry : BOOLEAN, onMaxRetriesExceeded : BOOLEAN]
FnValues == {"success", "other"}
FnErrors ==
  {DatabaseError, TimeoutError, ValidationFailure, ProgrammerError, PlainError}

FnSettles ==
  \/ \E value \in FnValues : FnReturns(value)
  \/ \E error \in FnErrors : FnThrows(error)

NextRetry ==
  \/ \E opts \in RetryOptionChoices : now = 0 /\ Retry(opts)
  \/ \E value \in FnValues : FnReturns(value)
  \/ \E error \in FnErrors : FnThrows(error)
  \/ SleepEnds

InitRetry ==
  /\ ErrorCacheInit
  /\ LruInit(DefaultLruOptions)
  /\ BreakerInit(DefaultBreakerOptions)
  /\ RetryInit

SpecRetry == InitRetry /\ [][NextRetry]_vars

\* fn settles each time it is called, and each sleep ends
SpecRetryFair ==
  /\ InitRetry
  /\ [][NextRetry]_vars
  /\ WF_vars(FnSettles)
  /\ WF_vars(SleepEnds)

(***************************************************************************)
(* Properties of ErrorCache, checked under Spec.                            *)
(***************************************************************************)
KeysOf(c) == {c[i].key : i \in 1..Len(c)}
ErrorsOf(c) == [i \in 1..Len(c) |-> c[i].error]
Similar(a, b) == RatGE(Similarity(a, b), options.similarityThreshold)
LastOf(s, n) == SubSeq(s, Len(s) - n + 1, Len(s))
Min2(a, b) == IF a <= b THEN a ELSE b

\* C1: after every completed addError, removeError, clearExpired or clear,
\* the cache holds at most maxSize entries.
C1_CapacityBound == Len(cache) <= options.maxSize

\* an insertion into a full cache has just evicted
C1_Witness ==
  /\ result.op = "addError" /\ ~result.isDuplicate
  /\ calls.pure /\ Len(calls.sigs) > options.maxSize
  /\ Len(cache) = options.maxSize
  /\ \A i, j \in 1..Len(calls.sigs) : i # j => ~Similar(calls.sigs[i], calls.sigs[j])

\* the signals added since the cache was empty differ pairwise
DistinctCalls ==
  \A i, j \in 1..Len(calls.sigs) : i # j => calls.sigs[i] # calls.sigs[j]

\* ... and have pairwise different keys and score below the threshold
DissimilarCalls ==
  \A i, j \in 1..Len(calls.sigs) :
    i # j => /\ defaultKeyGenerator(calls.sigs[i]) # defaultKeyGenerator(calls.sigs[j])
             /\ ~Similar(calls.sigs[i], calls.sigs[j])

\* C2 as stated: m + k distinct signals added to an empty cache with no
\* expiry in between leave exactly the m added last.
C2_DistinctSignalsLeaveNewest ==
  (calls.pure /\ DistinctCalls /\ Len(calls.sigs) >= options.maxSize)
    => ErrorsOf(cache) = LastOf(calls.sigs, options.maxSize)

\* C2 amended: m + k signals with pairwise different keys and pairwise
\* similarity below the threshold, added to an empty cache with no expiry in
\* between, leave exactly the m added last, each with count 1, in the order
\* they were added; fewer than m signals are all kept.
C2_DissimilarSignalsLeaveNewest ==
  (calls.pure /\ DissimilarCalls)
    => /\ ErrorsOf(cache) = LastOf(calls.sigs, Min2(Len(calls.sigs), options.maxSize))
       /\ \A i \in 1..Len(cache) : cache[i].count = 1

\* maxSize = 2; A, B, C added; the cache holds B, C
C2_Witness ==
  /\ calls.pure /\ DissimilarCalls
  /\ options.maxSize = 2 /\ Len(calls.sigs) = 3
  /\ ErrorsOf(cache) = <<calls.sigs[2], calls.sigs[3]>>

\* C3: the same signal added n >= 1 times to an empty cache gives one entry
\* with count n; the first call returns isDuplicate = false with count 1,
\* every later one isDuplicate = true with that entry, counted once more: an
\* addError of the signal of the addError made just before returns
\* isDuplicate = true with the entry that call returned, counted once more.
\* In any store, an addError whose key is cached returns that key's entry,
\* counted exactly once more, and changes nothing else.
C3_ExactDuplicateIdempotence ==
  /\ [][(/\ result.op = "addError"
          /\ result'.op = "addError"
          /\ result'.error = result.error
          /\ AddError(result.error))
         => /\ result'.isDuplicate
            /\ result'.cachedError.key = result.cachedError.key
            /\ result'.cachedError.count = result.cachedError.count + 1]_vars
  /\ []((calls.pure /\ Len(calls.sigs) >= 1
           /\ \A i \in 1..Len(calls.sigs) : calls.sigs[i] = calls.sigs[1])
          => /\ Len(cache) = 1
             /\ cache[1].error = calls.sigs[1]
             /\ cache[1].key = defaultKeyGenerator(calls.sigs[1])
             /\ cache[1].count = Len(calls.sigs)
             /\ result.op = "addError"
                  => /\ result.isDuplicate = (Len(calls.sigs) > 1)
                     /\ result.cachedError = cache[1])
  /\ [][LET s == result'.error
            i == MapGet(cache, defaultKeyGenerator(s))
        IN (result'.op = "addError" /\ AddError(s) /\ i # 0)
             => /\ result'.isDuplicate
                /\ Len(cache') = Len(cache)
                /\ result'.cachedError = cache'[i]
                /\ cache'[i].key = defaultKeyGenerator(s)
                /\ cache'[i].count = cache[i].count + 1
                /\ \A j \in 1..Len(cache) : j # i => cache'[j] = cache[j]]_vars

\* C4: when the signal's key is not in the store, addError returns
\* isDuplicate = true exactly if some cached entry's signal scores
\* 0.4 [code] + 0.3 x message + 0.2 [statusCode] + 0.1 x context >= the
\* threshold; otherwise it creates an entry with count 1, stamped with the
\* call's first reading of the clock, and returns false; the entry is in the
\* store after the call unless the call's sweep, at the second reading,
\* found it older than ttl.
C4_DecisionProcedure ==
  [][LET s == result'.error
     IN (result'.op = "addError" /\ AddError(s)
           /\ defaultKeyGenerator(s) \notin KeysOf(cache))
          => IF \E i \in 1..Len(cache) : Similar(s, cache[i].error)
             THEN result'.isDuplicate /\ KeysOf(cache') = KeysOf(cache)
             ELSE /\ ~result'.isDuplicate
                  /\ result'.cachedError.count = 1
                  /\ result'.cachedError.error = s
                  /\ result'.cachedError.key = defaultKeyGenerator(s)
                  /\ result'.cachedError.timestamp = now
                  /\ IF now' - now > options.ttl
                     THEN defaultKeyGenerator(s) \notin KeysOf(cache')
                     ELSE /\ MapGet(cache', defaultKeyGenerator(s)) # 0
                          /\ cache'[MapGet(cache', defaultKeyGenerator(s))]
                               = result'.cachedError]_vars

\* a signal folded into an entry it scores exactly the threshold against
C4_Witness ==
  /\ result.op = "addError" /\ result.isDuplicate
  /\ result.cachedError.key # defaultKeyGenerator(result.error)
  /\ Similarity(result.error, result.cachedError.error)[1] * ThresholdDen
       = ThresholdNum * Similarity(result.error, result.cachedError.error)[2]

\* the entry stored under key k
EntryOf(c, k) == c[MapGet(c, k)]
\* the step is an addError call that inserted a new entry
Inserting == result'.op = "addError" /\ ~result'.isDuplicate /\ AddError(result'.error)
\* the step ran the TTL sweep: clearExpired, or the cleanup of an insertion
Sweeping == (result'.op = "clearExpired" /\ ClearExpired) \/ Inserting

\* C6 as stated: no cached entry is older than ttl, and addError never folds a
\* call into an entry older than ttl.
C6_NoExpiredEntryCached ==
  /\ \A i \in 1..Len(cache) : ~(now - cache[i].timestamp > options.ttl)
  /\ (result.op = "addError" /\ result.isDuplicate)
       => ~(result.cachedError.lastOccurrence - result.cachedError.timestamp > options.ttl)

\* C6 amended: expiry is applied by sweeps only.  A key leaves the store only
\* by clear, by removeError of that key, by a sweep (clearExpired, or the
\* cleanup of an insertion) run when the entry is older than ttl, or by the
\* capacity eviction of an insertion into a full store; a key enters only by
\* an insertion; right after a sweep no cached entry is older than ttl.
\* Between sweeps an entry older than ttl stays cached and is still matched.
C6_MembershipTracksSweeps ==
  [][/\ Sweeping
          => \A i \in 1..Len(cache') : ~(now' - cache'[i].timestamp > options.ttl)
     /\ \A k \in KeysOf(cache) \ KeysOf(cache') :
          \/ result'.op = "clear"
          \/ result'.op = "removeError" /\ RemoveError(k)
          \/ Sweeping /\ now' - EntryOf(cache, k).timestamp > options.ttl
          \/ Inserting /\ Len(cache) + 1 > options.maxSize
     /\ \A k \in KeysOf(cache') \ KeysOf(cache) :
          Inserting /\ k = defaultKeyGenerator(result'.error)]_vars

\* addError has just folded a call into an entry older than ttl
C6_Witness ==
  /\ result.op = "addError" /\ result.isDuplicate
  /\ result.cachedError.lastOccurrence - result.cachedError.timestamp > options.ttl
  /\ MapGet(cache, result.cachedError.key) # 0

\* C7: clearExpired at time now removes exactly the entries with
\* now - firstSeen > ttl, returns how many it removed and leaves every other
\* entry as it was, in place.
C7_TtlSweep ==
  [][(result'.op = "clearExpired" /\ ClearExpired)
       => LET old == {i \in 1..Len(cache) : now - cache[i].timestamp > options.ttl}
          IN /\ KeysOf(cache) \ KeysOf(cache') = {cache[i].key : i \in old}
             /\ result'.cleared = Cardinality(old)
             /\ cache' = SelectSeq(cache, LAMBDA e : e.key \in KeysOf(cache'))]_vars

\* a sweep that removed an entry and kept another
C7_Witness ==
  /\ result.op = "clearExpired" /\ result.cleared >= 1
  /\ Len(cache) >= 1

\* C8: every cached entry has count >= 1 and lastOccurrence >= timestamp; while
\* an entry stays cached its count never decreases and its key, timestamp and
\* retained signal never change.
C8_EntryInvariants ==
  /\ [](\A i \in 1..Len(cache) :
          /\ cache[i].count >= 1
          /\ cache[i].lastOccurrence >= cache[i].timestamp
          /\ cache[i].key = defaultKeyGenerator(cache[i].error))
  /\ [][\A i \in 1..Len(cache) :
          MapGet(cache', cache[i].key) # 0
            => LET e == EntryOf(cache', cache[i].key)
               IN /\ e.count >= cache[i].count
                  /\ e.timestamp = cache[i].timestamp
                  /\ e.error = cache[i].error
                  /\ e.lastOccurrence >= cache[i].lastOccurrence]_vars

\* an entry matched again, later than it was created, by another signal
C8_Witness ==
  /\ result.op = "addError" /\ result.isDuplicate
  /\ result.cachedError.error # result.error
  /\ MapGet(cache, result.cachedError.key) # 0
  /\ EntryOf(cache, result.cachedError.key).count >= 2
  /\ EntryOf(cache, result.cachedError.key).lastOccurrence
       > EntryOf(cache, result.cachedError.key).timestamp

(***************************************************************************)
(* Key derivation, checked under SpecKeys.                                  *)
(***************************************************************************)
\* the same code, message and context properties, in whatever order
SameUpToContextOrder(a, b) ==
  /\ a.code = b.code /\ a.message = b.message
  /\ a.hasContext = b.hasContext
  /\ {a.context[i] : i \in 1..Len(a.context)} = {b.context[i] : i \in 1..Len(b.context)}

\* C5: two signals with equal code and message whose contexts hold the same
\* properties in different orders get the same key, so the second one added
\* is an exact-key duplicate of the first.
C5_KeyIgnoresContextOrder ==
  \A i \in 1..Len(cache) :
    (result.op = "addError" /\ SameUpToContextOrder(result.error, cache[i].error))
      => defaultKeyGenerator(result.error) = cache[i].key

(***************************************************************************)
(* DeduplicationService, checked under SpecService.                         *)
(***************************************************************************)
\* C9: an enabled processError that reports a duplicate arriving more than
\* 5 minutes after the matched entry's previous lastOccurrence has
\* shouldLog = true, whatever the count.
C9_TimeBasedShouldLog ==
  [][LET s == result'.error
     IN (/\ result'.op = "processError" /\ enabled /\ result'.isDuplicate
         /\ \E d \in Elapsed : ProcessError(s, d)
         /\ MapGet(cache, result'.cachedError.key) # 0
         /\ now - EntryOf(cache, result'.cachedError.key).lastOccurrence > LogIntervalMs)
        => result'.shouldLog]_vars

\* every occurrence folded into the entry came within 5 minutes of its creation
WithinLogInterval(e) == e.lastOccurrence - e.timestamp < LogIntervalMs

\* the number of duplicates folded into the entry: it is created with count 1
\* and counted once more by every duplicate
DuplicateNumber(e) == e.count - 1

\* C10 as stated: with all occurrences less than 5 minutes apart, the 10th,
\* 20th, ... duplicate of an entry has shouldLog = true, every other false.
C10_EveryTenthDuplicate ==
  (result.op = "processError" /\ result.isDuplicate
     /\ WithinLogInterval(result.cachedError)
     /\ now - result.cachedError.lastOccurrence < LogIntervalMs)
    => (result.shouldLog <=> DuplicateNumber(result.cachedError) % 10 = 0)

\* C10 amended: with all occurrences less than 5 minutes apart (and each call
\* taking less than 5 minutes: the clock after the call is less than 5 minutes
\* past the lastOccurrence the call stamped), a duplicate has shouldLog = true exactly when
\* it brings the entry's count to 10, 20, 30, ...: the 9th, 19th, 29th, ...
\* duplicate, the 10th, 20th, 30th, ... occurrence.
C10_EveryTenthOccurrence ==
  (result.op = "processError" /\ result.isDuplicate
     /\ WithinLogInterval(result.cachedError)
     /\ now - result.cachedError.lastOccurrence < LogIntervalMs)
    => (result.shouldLog <=> result.cachedError.count % 10 = 0)

\* the 20th occurrence is logged
C10_Witness ==
  /\ result.op = "processError" /\ result.isDuplicate
  /\ WithinLogInterval(result.cachedError)
  /\ now - result.cachedError.lastOccurrence < LogIntervalMs
  /\ result.cachedError.count = 20 /\ result.shouldLog

\* C11: every processError result with isDuplicate = true carries an entry
\* with count >= 2 (the count = 1 alert branch is never taken), so a
\* duplicate's shouldAlert is true exactly when the entry's count is a
\* multiple of 50.
C11_DuplicateAlertCadence ==
  (result.op = "processError" /\ result.isDuplicate)
    => /\ result.hasEntry
       /\ result.cachedError.count >= 2
       /\ result.shouldAlert <=> (result.cachedError.count % 50 = 0)

\* the 50th occurrence alerts
C11_Witness ==
  /\ result.op = "processError" /\ result.isDuplicate
  /\ result.cachedError.count = 50 /\ result.shouldAlert

\* the positions of a step in a trace
StepsOf(tr, step) == {i \in 1..Len(tr) : tr[i].step = step}
\* the step is a processError call made with deduplication enabled
Processing ==
  /\ result'.op = "processError" /\ enabled
  /\ \E d \in Elapsed : ProcessError(result'.error, d)

\* C12: whenever processError returns isDuplicate = true, onDuplicate was
\* invoked exactly once during the call, after the entry's count and
\* lastOccurrence were updated and before shouldLog and shouldAlert were
\* computed, with the signal and the entry the result returns (count already
\* incremented); onNewError was not invoked.
C12_OnDuplicateOrdering ==
  [][(Processing /\ result'.isDuplicate)
       => /\ Cardinality(StepsOf(trace', "onDuplicate")) = 1
          /\ StepsOf(trace', "onNewError") = {}
          /\ StepsOf(trace', "shouldLogDuplicate") # {}
          /\ StepsOf(trace', "shouldAlertDuplicate") # {}
          /\ \A i \in StepsOf(trace', "onDuplicate") :
               /\ trace'[i].error = result'.error
               /\ trace'[i].cachedError = result'.cachedError
               /\ MapGet(cache, trace'[i].cachedError.key) # 0
               /\ trace'[i].cachedError.count
                    = EntryOf(cache, trace'[i].cachedError.key).count + 1
               /\ trace'[i].cachedError.lastOccurrence = now
               /\ trace'[i].cachedError = EntryOf(cache', trace'[i].cachedError.key)
               /\ \A j \in StepsOf(trace', "shouldLogDuplicate")
                           \cup StepsOf(trace', "shouldAlertDuplicate") : i < j]_vars

\* the observer of a duplicate saw the second occurrence, later than the first
C12_Witness ==
  /\ result.op = "processError" /\ result.isDuplicate
  /\ Len(trace) = 3 /\ trace[1].step = "onDuplicate"
  /\ trace[1].cachedError.count = 2
  /\ trace[1].cachedError.lastOccurrence > trace[1].cachedError.timestamp

\* C13: when deduplication is enabled and the store reports a non-duplicate
\* (the key is not cached and no cached entry scores the threshold),
\* processError returns isDuplicate = false, shouldLog = true,
\* shouldAlert = true, invokes onNewError exactly once with the signal and
\* does not invoke onDuplicate.
C13_NewErrorPath ==
  [][(/\ Processing
      /\ defaultKeyGenerator(result'.error) \notin KeysOf(cache)
      /\ \A i \in 1..Len(cache) : ~Similar(result'.error, cache[i].error))
       => /\ ~result'.isDuplicate
          /\ result'.shouldLog /\ result'.shouldAlert
          /\ Cardinality(StepsOf(trace', "onNewError")) = 1
          /\ \A i \in StepsOf(trace', "onNewError") : trace'[i].error = result'.error
          /\ StepsOf(trace', "onDuplicate") = {}]_vars

\* a new error arrived while another entry was cached
C13_Witness ==
  /\ result.op = "processError" /\ enabled /\ ~result.isDuplicate
  /\ Len(trace) = 1 /\ trace[1].step = "onNewError"
  /\ trace[1].error = result.error
  /\ Len(cache) = 2
  /\ cache[2].error = result.error /\ cache[2].count = 1

\* C14: while enabled is false (by construction, by updateOptions or after
\* disable()), every processError call returns isDuplicate = false,
\* shouldLog = true and shouldAlert = true, whatever the store contains and
\* however often the signal was seen.
C14_DisabledPassThrough ==
  (result.op = "processError" /\ ~enabled)
    => ~result.isDuplicate /\ result.shouldLog /\ result.shouldAlert

\* a disabled call for a signal the store has counted twice
C14_Witness ==
  /\ result.op = "processError" /\ ~enabled
  /\ ~result.isDuplicate /\ result.shouldLog /\ result.shouldAlert
  /\ MapGet(cache, defaultKeyGenerator(result.error)) # 0
  /\ EntryOf(cache, defaultKeyGenerator(result.error)).count >= 2

(***************************************************************************)
(* Statistics, checked under SpecStats.                                     *)
(***************************************************************************)
\* the sum of the entries' counts, from the first entry on
RECURSIVE TotalCount(_)
TotalCount(c) == IF c = <<>> THEN 0 ELSE c[1].count + TotalCount(Tail(c))

\* a store whose entries have the counts 3, 1, 1
ExampleStore ==
  << CachedError(S1, 0, 3, 0, defaultKeyGenerator(S1)),
     CachedError(S5, 0, 1, 0, defaultKeyGenerator(S5)),
     CachedError(S6, 0, 1, 0, defaultKeyGenerator(S6)) >>

\* C15: getStats() returns totalErrors = the sum of count over the entries
\* cached now, uniqueErrors = the number of cached entries and
\* duplicateErrors = totalErrors - uniqueErrors (counts 3, 1, 1 give 5, 3, 2);
\* entries evicted, swept or removed before contribute nothing.
C15_StatisticsCounts ==
  /\ result.op = "getStats"
       => /\ result.stats.totalErrors = TotalCount(cache)
          /\ result.stats.uniqueErrors = Len(cache)
          /\ result.stats.duplicateErrors
               = result.stats.totalErrors - result.stats.uniqueErrors
  /\ getStats(ExampleStore).totalErrors = 5
  /\ getStats(ExampleStore).uniqueErrors = 3
  /\ getStats(ExampleStore).duplicateErrors = 2

\* statistics taken after an eviction: fewer occurrences than calls
C15_Witness ==
  /\ result.op = "getStats"
  /\ calls.pure /\ calls.evicted
  /\ result.stats.uniqueErrors = options.maxSize
  /\ result.stats.totalErrors < Len(calls.sigs)

\* C16 as stated: hitRate equals duplicateErrors / totalErrors exactly
\* (hitRate x totalErrors = duplicateErrors), and is 0 when totalErrors = 0.
\* hitRate is in hundredths.
C16_HitRateExact ==
  result.op = "getStats"
    => IF result.stats.totalErrors = 0 THEN result.stats.hitRate = 0
       ELSE result.stats.hitRate * result.stats.totalErrors
              = 100 * result.stats.duplicateErrors

\* the distance |a - b|
Distance(a, b) == IF a >= b THEN a - b ELSE b - a

\* C16 amended: hitRate is duplicateErrors / totalErrors rounded to two
\* decimals (a whole number of hundredths within 0.005 of the quotient), and
\* 0 when totalErrors = 0; it equals the quotient only when that has at most
\* two decimals.
C16_HitRateRounded ==
  result.op = "getStats"
    => IF result.stats.totalErrors = 0 THEN result.stats.hitRate = 0
       ELSE /\ result.stats.hitRate \in 0..100
            /\ 2 * Distance(result.stats.hitRate * result.stats.totalErrors,
                            100 * result.stats.duplicateErrors)
                 <= result.stats.totalErrors

\* one duplicate in three occurrences: hitRate 0.33
C16_Witness ==
  /\ result.op = "getStats"
  /\ result.stats.totalErrors = 3 /\ result.stats.duplicateErrors = 1
  /\ result.stats.hitRate = 33

\* C17 as stated: after any sequence of addError calls, duplicateErrors /
\* totalErrors equals the proportion of those calls that returned
\* isDuplicate = true.
C17_HitRateOfAllCalls ==
  (result.op = "getStats" /\ calls.pure /\ Len(calls.sigs) >= 1)
    => /\ result.stats.totalErrors > 0
       /\ result.stats.duplicateErrors * Len(calls.sigs)
            = calls.dups * result.stats.totalErrors

\* C17 amended: after a sequence of addError calls on an empty cache during
\* which no entry was evicted for capacity, swept as expired or removed,
\* totalErrors is the number of calls and duplicateErrors the number of calls
\* that returned isDuplicate = true.  Occurrences counted by an entry leave
\* the statistics with the entry.
C17_HitRateOfRetainedCalls ==
  (result.op = "getStats" /\ calls.pure /\ ~calls.evicted)
    => /\ result.stats.totalErrors = Len(calls.sigs)
       /\ result.stats.duplicateErrors = calls.dups

\* three calls, one of them a duplicate, nothing evicted
C17_Witness ==
  /\ result.op = "getStats" /\ calls.pure /\ ~calls.evicted
  /\ Len(calls.sigs) = 3 /\ calls.dups = 1
  /\ result.stats.uniqueErrors = 2

(***************************************************************************)
(* The read operations, checked under SpecReads.                            *)
(***************************************************************************)
ReadOps ==
  {"getStats", "getAllErrors", "getError", "getErrorsByCode",
   "getErrorsBySeverity", "getMostFrequentErrors", "getRecentErrors",
   "isDuplicate"}

\* C18: getStats, getAllErrors, getError, getErrorsByCode,
\* getErrorsBySeverity, getMostFrequentErrors, getRecentErrors and
\* isDuplicate leave the store as it was (keys, counts, timestamps and
\* iteration order) and sweep or evict nothing.
C18_ReadsLeaveStoreAlone ==
  [][result'.op \in ReadOps => cache' = cache]_vars

\* getRecentErrors returned the entries in another order than the store's,
\* from a store that holds an entry older than ttl
C18_Witness ==
  /\ result.op = "getRecentErrors"
  /\ Len(cache) = 2 /\ Len(result.errors) = 2
  /\ result.errors[1] = cache[2]
  /\ \E i \in 1..Len(cache) : now - cache[i].timestamp > options.ttl

(***************************************************************************)
(* The similarity scorer, checked under SpecSimilarity.                     *)
(***************************************************************************)
\* messages of n characters that differ in exactly one of them
OneCharacterApart(m1, m2, n) ==
  /\ Len(m1) = n /\ Len(m2) = n
  /\ Cardinality({i \in 1..n : m1[i] # m2[i]}) = 1

\* the same code and statusCode, 20-character messages one character apart
NearTwins(a, b) ==
  /\ a.code = b.code /\ a.statusCode = b.statusCode
  /\ OneCharacterApart(a.message, b.message, 20)

\* a rational above / below the default threshold 0.8
Above(score) == score[1] * 10 > 8 * score[2]
Below(score) == score[1] * 10 < 8 * score[2]

\* C19: at the default threshold 0.8, two signals with the same code and
\* statusCode whose 20-character messages differ in one character score
\* above 0.8, and the second is folded into the first's entry; two signals
\* with different codes score below 0.8 whatever their messages, statusCodes
\* and contexts, and the second is not folded.
C19_ThresholdBoundary ==
  /\ [](result.op = "calculateSimilarity"
          => /\ NearTwins(result.error, result.other) => Above(result.score)
             /\ result.error.code # result.other.code => Below(result.score))
  /\ [][(result'.op = "addError" /\ AddError(result'.error) /\ Len(cache) = 1)
          => /\ NearTwins(result'.error, cache[1].error)
                  => /\ result'.isDuplicate
                     /\ cache' = <<result'.cachedError>>
                     /\ result'.cachedError.error = cache[1].error
                     /\ result'.cachedError.count = cache[1].count + 1
             /\ result'.error.code # cache[1].error.code
                  => /\ ~result'.isDuplicate
                     /\ result'.cachedError.error = result'.error
                     /\ result'.cachedError.count = 1]_vars

\* the second of two near twins was folded into the first's entry
C19_Witness ==
  /\ result.op = "addError" /\ result.isDuplicate
  /\ result.error # result.cachedError.error
  /\ NearTwins(result.error, result.cachedError.error)
  /\ cache = <<result.cachedError>>

\* the properties of a context, its keys, and the keys two contexts share
\* with values that serialize identically
Properties(error) == {error.context[i] : i \in 1..Len(error.context)}
KeysIn(error) == {p[1] : p \in Properties(error)}
SharedKeys(a, b) == KeysIn(a) \cap KeysIn(b)
AgreeingKeys(a, b) ==
  {k \in SharedKeys(a, b) :
     \E p \in Properties(a) : \E q \in Properties(b) :
       p[1] = k /\ q[1] = k /\ Digit(p[2]) = Digit(q[2])}

\* C20: for any two signals the scorer returns a value; its context
\* component is 1 when both contexts are absent, 0 when exactly one is
\* absent, and otherwise (shared keys whose values serialize identically) /
\* (shared keys), which the code takes as 0 when no key is shared.
C20_ContextComponent ==
  result.op = "calculateSimilarity"
    => LET a == result.error
           b == result.other
           c == result.contextScore
       IN /\ c[2] > 0
          /\ (~a.hasContext /\ ~b.hasContext) => c[1] = c[2]
          /\ (a.hasContext # b.hasContext) => c[1] = 0
          /\ (a.hasContext /\ b.hasContext /\ SharedKeys(a, b) # {})
               => c[1] * Cardinality(SharedKeys(a, b))
                    = Cardinality(AgreeingKeys(a, b)) * c[2]
          /\ (a.hasContext /\ b.hasContext /\ SharedKeys(a, b) = {}) => c[1] = 0

\* two contexts that share two keys and agree on one of them
C20_Witness ==
  /\ result.op = "calculateSimilarity"
  /\ result.error.hasContext /\ result.other.hasContext
  /\ Cardinality(SharedKeys(result.error, result.other)) = 2
  /\ Cardinality(AgreeingKeys(result.error, result.other)) = 1
  /\ result.contextScore = <<1, 2>>

(***************************************************************************)
(* The edit distance, checked under SpecStrings.                            *)
(***************************************************************************)
\* the classic edit distance: the least number of insertions, deletions and
\* substitutions of one character that turn s into t
RECURSIVE EditDistance(_, _)
EditDistance(s, t) ==
  IF Len(s) = 0 THEN Len(t)
  ELSE IF Len(t) = 0 THEN Len(s)
  ELSE LET delete == EditDistance(Tail(s), t) + 1
           insert == EditDistance(s, Tail(t)) + 1
           substitute == EditDistance(Tail(s), Tail(t))
                           + (IF Head(s) = Head(t) THEN 0 ELSE 1)
       IN IF delete <= insert /\ delete <= substitute THEN delete
          ELSE IF insert <= substitute THEN insert ELSE substitute

\* C21: for all strings s, t over the alphabet, of MaxLen characters at most,
\* levenshteinDistance(s, t) is the classic unit-cost edit distance and
\* calculateStringSimilarity(s, t) is 1 - distance / max(len(s), len(t)),
\* 1 for the empty pair, and lies in [0, 1].
C21_EditDistance ==
  result.op = "calculateStringSimilarity"
    => LET s == result.str1
           t == result.str2
           longest == IF Len(s) >= Len(t) THEN Len(s) ELSE Len(t)
       IN /\ result.distance = EditDistance(s, t)
          /\ result.score[2] > 0
          /\ IF longest = 0 THEN result.score[1] = result.score[2]
             ELSE result.score[1] * longest
                    = (longest - EditDistance(s, t)) * result.score[2]
          /\ 0 <= result.score[1] /\ result.score[1] <= result.score[2]

\* two strings of different lengths that need a substitution and an insertion
C21_Witness ==
  /\ result.op = "calculateStringSimilarity"
  /\ Len(result.str1) = 2 /\ Len(result.str2) = 3
  /\ result.str1[1] # result.str2[1]
  /\ result.distance = 2
  /\ result.score = <<1, 3>>

\* the entries of c that time t finds older than ttl
Outlived(c, t) == {i \in 1..Len(c) : t - c[i].timestamp > lruOptions.ttl}

\* C22: once destroy() has returned, the cleanup timer is unset and never
\* fires again, so that an entry set afterwards is only removed by a call,
\* and destroy() leaves the cache empty; before, each firing of the timer
\* removes the entries older than ttl, all of them and no others.
C22_TimerCancellation ==
  /\ [](destroyed => ~cleanupTimer.armed)
  /\ [](lruResult.op = "destroy" => lruCache = <<>> /\ accessOrder = <<>>)
  /\ [][CleanupTimerFires =>
          /\ ~destroyed
          /\ lruCache' = SelectSeq(lruCache,
                            LAMBDA e : ~(now - e.timestamp > lruOptions.ttl))
          /\ accessOrder' = SelectSeq(accessOrder,
                               LAMBDA k : k \in KeysOf(lruCache'))]_vars

\* C22 witness: after destroy() an entry was set and has outlived ttl, and
\* it is still in the cache
C22_Witness ==
  /\ destroyed
  /\ lruCache # <<>>
  /\ Outlived(lruCache, now) = 1..Len(lruCache)

\* C23: the cache never holds more than maxSize entries, and a set of a
\* key the cache does not hold, when it holds maxSize entries, removes one
\* entry: the one whose key was least recently set or returned by get, has
\* or getBatch.
C23_LruDiscipline ==
  /\ [](Len(lruCache) <= lruOptions.maxSize)
  /\ [][(/\ lruResult'.op = "set"
          /\ Set(lruResult'.key, lruResult'.value)
          /\ lruResult'.key \notin KeysOf(lruCache)
          /\ Len(lruCache) = lruOptions.maxSize)
         => /\ KeysOf(lruCache') =
                 (KeysOf(lruCache) \ {recency[1]}) \cup {lruResult'.key}
            /\ Len(lruCache') = Len(lruCache)
            /\ lruResult'.evicted = <<recency[1]>>]_vars

\* C23 witness: a set made room by evicting the entry inserted last, and
\* kept the entry inserted first, which a lookup had returned since
C23_Witness ==
  /\ lruResult.op = "set"
  /\ Len(lruResult.evicted) = 1
  /\ Len(lruCache) = 2
  /\ lruCache[1].count = 2
  /\ lruCache[2].key = lruResult.key

\* C24: a CLOSED breaker has counted the failures recorded since it was
\* last CLOSED without a success, fewer than failureThreshold of them; the
\* failure that brings the count to failureThreshold, and no other step,
\* opens it, with nextAttemptTime = now + recoveryTimeout; a success while
\* CLOSED puts the count back to 0.
C24_Opening ==
  /\ [](state = "CLOSED" =>
          /\ failureCount = episode.failuresInRow
          /\ failureCount < breakerOptions.failureThreshold)
  /\ [][(state = "CLOSED" /\ breakerResult'.op = "fnRejected" /\ FnRejects)
         => IF episode.failuresInRow + 1 = breakerOptions.failureThreshold
            THEN /\ state' = "OPEN"
                 /\ failureCount' = breakerOptions.failureThreshold
                 /\ nextAttemptTime' = now' + breakerOptions.recoveryTimeout
            ELSE /\ state' = "CLOSED"
                 /\ failureCount' = failureCount + 1
                 /\ nextAttemptTime' = nextAttemptTime]_vars
  /\ [][(state = "CLOSED" /\ breakerResult'.op = "fnResolved" /\ FnResolves)
         => state' = "CLOSED" /\ failureCount' = 0]_vars
  /\ [][(state = "CLOSED" /\ state' = "OPEN")
         => breakerResult'.op = "fnRejected"]_vars

\* C24 witness: a breaker with failureThreshold 2 was opened by the second
\* of two failures that followed a success
C24_Witness ==
  /\ state = "OPEN"
  /\ breakerOptions.failureThreshold = 2
  /\ failureCount = 2
  /\ successCount >= 1
  /\ breakerResult.op = "fnRejected"
  /\ breakerResult.from = "CLOSED"
  /\ nextAttemptTime = breakerResult.at + breakerOptions.recoveryTimeout

\* C25: an execute on an OPEN breaker before nextAttemptTime throws
\* SERVICE_UNAVAILABLE, does not call fn and changes no field; an execute at
\* or after nextAttemptTime makes the breaker HALF_OPEN, counts its call as
\* the first and calls fn.
C25_FastFail ==
  /\ [](state = "OPEN" => nextAttemptTime # Undefined)
  /\ [][(state = "OPEN" /\ breakerResult'.op = "execute" /\ Execute)
         => IF now < nextAttemptTime
            THEN /\ breakerResult'.rejected
                 /\ breakerResult'.code = "SERVICE_UNAVAILABLE"
                 /\ ~breakerResult'.invoked
                 /\ UNCHANGED <<state, failureCount, lastFailureTime,
                                 nextAttemptTime, successCount, callCount,
                                 inFlight>>
            ELSE /\ state' = "HALF_OPEN"
                 /\ callCount' = 1
                 /\ breakerResult'.invoked
                 /\ ~breakerResult'.rejected
                 /\ inFlight' = inFlight + 1]_vars

\* C25 witness: the first execute at nextAttemptTime found the breaker OPEN
\* and called fn
C25_Witness ==
  /\ breakerResult.op = "execute"
  /\ breakerResult.from = "OPEN"
  /\ breakerResult.invoked
  /\ breakerResult.at = nextAttemptTime
  /\ state = "HALF_OPEN"
  /\ callCount = 1

\* C26: while the breaker is HALF_OPEN, at most halfOpenMaxCalls calls of
\* fn have been started since it became so, whatever the order in which the
\* concurrent calls run; an execute beyond them throws SERVICE_UNAVAILABLE
\* and does not call fn.
C26_HalfOpenLimit ==
  /\ [](episode.starts <= breakerOptions.halfOpenMaxCalls)
  /\ [][(/\ state = "HALF_OPEN"
          /\ breakerResult'.op = "execute"
          /\ Execute
          /\ episode.starts >= breakerOptions.halfOpenMaxCalls)
         => /\ breakerResult'.rejected
            /\ breakerResult'.code = "SERVICE_UNAVAILABLE"
            /\ ~breakerResult'.invoked
            /\ inFlight' = inFlight
            /\ state' = "HALF_OPEN"]_vars

\* C26 witness: two calls started in the HALF_OPEN state are in flight
\* together and a third execute was turned away
C26_Witness ==
  /\ state = "HALF_OPEN"
  /\ breakerOptions.halfOpenMaxCalls = 2
  /\ episode.starts = 2
  /\ episode.successes = 0
  /\ inFlight >= 2
  /\ breakerResult.op = "execute"
  /\ breakerResult.rejected

\* C27: a success closes a HALF_OPEN breaker only when halfOpenMaxCalls
\* successes have been recorded since it became HALF_OPEN, then with
\* failureCount 0 and no nextAttemptTime; a failure recorded while HALF_OPEN
\* opens it with nextAttemptTime = now + recoveryTimeout.
C27_HalfOpenRecovery ==
  /\ [][(state = "HALF_OPEN" /\ state' = "CLOSED" /\ breakerResult'.op = "fnResolved")
         => /\ episode.successes + 1 >= breakerOptions.halfOpenMaxCalls
            /\ failureCount' = 0
            /\ nextAttemptTime' = Undefined]_vars
  /\ [][(state = "HALF_OPEN" /\ breakerResult'.op = "fnRejected" /\ FnRejects)
         => /\ state' = "OPEN"
            /\ nextAttemptTime' = now' + breakerOptions.recoveryTimeout]_vars

\* an error the options take to be retryable: an operational AppError with
\* one of the six statusCodes, or an error whose code the options list
RetryableFor(error, opts) ==
  \/ /\ error.isAppError
     /\ error.isOperational
     /\ error.statusCode \in {408, 429, 500, 502, 503, 504}
  \/ error.code \in opts.retryableErrors
AllRetryable(thrown, opts) ==
  \A i \in 1..Len(thrown) : RetryableFor(thrown[i], opts)

\* C28: retry calls fn maxAttempts times at most; a call that awaits fn or
\* a sleep comes to its end when fn settles each time and the sleeps end;
\* and a call that fn failed each time with a retryable error has called fn
\* maxAttempts times and rejects with the last of the errors.
C28_RetryBound ==
  /\ [](invoked.started <= retryOptions.maxAttempts)
  /\ [](Len(invoked.thrown) <= invoked.started)
  /\ [](retryPc \in {"fn", "sleep"} => <>(retryPc = "done"))
  /\ []((/\ retryPc = "done"
          /\ settled.status = "rejected"
          /\ AllRetryable(invoked.thrown, retryOptions))
         => /\ invoked.started = retryOptions.maxAttempts
            /\ Len(invoked.thrown) = retryOptions.maxAttempts
            /\ invoked.thrown # <<>>
                 => settled.error = invoked.thrown[Len(invoked.thrown)])

\* C28 witness: with maxAttempts 3, fn was called three times, failed with
\* a retryable error each time, and retry rejected with the third error
C28_Witness ==
  /\ retryPc = "done"
  /\ retryOptions.maxAttempts = 3
  /\ invoked.started = 3
  /\ invoked.thrown = <<DatabaseError, DatabaseError, TimeoutError>>
  /\ settled = Rejected(TimeoutError)

\* C29: when fn fails with an error that is not retryable, retry rejects
\* with that error in the same step, calls neither callback for it and does
\* not call fn again: the next step is a new call of retry.
C29_NotRetried ==
  /\ [][(/\ retryPc = "fn"
          /\ Len(invoked'.thrown) = Len(invoked.thrown) + 1
          /\ FnThrows(lastError')
          /\ ~RetryableFor(lastError', retryOptions))
         => /\ retryPc' = "done"
            /\ settled' = Rejected(lastError')
            /\ callbacks' = callbacks
            /\ invoked'.started = invoked.started]_vars
  /\ [][retryPc = "done" =>
          attempt' = 0 /\ errors' = <<>> /\ invoked'.thrown = <<>>]_vars

\* C29 witness: the second call of fn failed with a validation error, which
\* the options do not list: retry rejected with it after one onRetry, for
\* the first error
C29_Witness ==
  /\ retryPc = "done"
  /\ retryOptions.maxAttempts = 3
  /\ retryOptions.retryableErrors = {}
  /\ retryOptions.onRetry
  /\ retryOptions.onMaxRetriesExceeded
  /\ invoked = [started |-> 2, thrown |-> <<DatabaseError, ValidationFailure>>]
  /\ settled = Rejected(ValidationFailure)
  /\ callbacks = << <<"onRetry", DatabaseError, 1>> >>

\* C30: when retry resolves, fn has failed k < maxAttempts times, each time
\* with a retryable error, and then returned: the result is the value fn
\* returned, attempts is k + 1 and errors are the k errors in the order in
\* which fn threw them.
C30_ResultAccounting ==
  /\ [](settled.status = "resolved" =>
          /\ retryPc = "done"
          /\ Len(invoked.thrown) < retryOptions.maxAttempts
          /\ AllRetryable(invoked.thrown, retryOptions)
          /\ invoked.started = Len(invoked.thrown) + 1
          /\ settled.attempts = Len(invoked.thrown) + 1
          /\ settled.errors = invoked.thrown)
  /\ [][\A value \in FnValues :
          (retryPc = "fn" /\ retryPc' = "done" /\ invoked' = invoked
             /\ FnReturns(value))
          => settled'.status = "resolved" /\ settled'.result = value]_vars

\* C30 witness: fn threw a database error, then a timeout, then returned
C30_Witness ==
  /\ settled.status = "resolved"
  /\ settled.result = "other"
  /\ settled.attempts = 3
  /\ settled.errors = <<DatabaseError, TimeoutError>>
  /\ invoked.thrown = <<DatabaseError, TimeoutError>>

IsOnRetry(c) == c[1] = "onRetry"
IsOnMaxRetriesExceeded(c) == c[1] = "onMaxRetriesExceeded"
OnRetryCalls == SelectSeq(callbacks, IsOnRetry)
OnMaxRetriesExceededCalls == SelectSeq(callbacks, IsOnMaxRetriesExceeded)

\* C31 as stated: with an onRetry callback, onRetry has been called once for
\* each time fn was called again or is about to be called again after a
\* sleep, the i-th call with the i-th error fn threw and the number i, so
\* never for the last failure of a rejected call; with an
\* onMaxRetriesExceeded callback, that callback is not called while retry
\* runs, and when retry is done it has been called once, with the last error
\* and maxAttempts, if every one of the maxAttempts calls of fn failed with a
\* retryable error, and not at all otherwise; a callback the options lack is
\* never called.
C31_RetryCallbacksAnyMaxAttempts ==
  /\ [](retryOptions.onRetry =>
          /\ Len(OnRetryCalls) =
               (IF retryPc = "sleep" THEN invoked.started
                ELSE IF invoked.started = 0 THEN 0 ELSE invoked.started - 1)
          /\ \A i \in 1..Len(OnRetryCalls) :
               OnRetryCalls[i] = <<"onRetry", invoked.thrown[i], i>>)
  /\ []((retryPc = "done" /\ settled.status = "rejected")
         => Len(OnRetryCalls) < Len(invoked.thrown) \/ invoked.thrown = <<>>)
  /\ [](retryOptions.onMaxRetriesExceeded =>
          /\ retryPc # "done" => OnMaxRetriesExceededCalls = <<>>
          /\ retryPc = "done" =>
               IF /\ Len(invoked.thrown) = retryOptions.maxAttempts
                  /\ AllRetryable(invoked.thrown, retryOptions)
               THEN Len(OnMaxRetriesExceededCalls) = 1
                    /\ OnMaxRetriesExceededCalls[1][3] = retryOptions.maxAttempts
               ELSE OnMaxRetriesExceededCalls = <<>>)
  /\ [](~retryOptions.onRetry => OnRetryCalls = <<>>)
  /\ [](~retryOptions.onMaxRetriesExceeded => OnMaxRetriesExceededCalls = <<>>)

\* C31 amended: as stated, for maxAttempts >= 1.  With maxAttempts = 0 fn is
\* not called, so each of its no calls failed, and retry rejects without
\* calling onMaxRetriesExceeded: the callback has been called once, with the
\* last error and maxAttempts, if maxAttempts >= 1 and every one of the
\* maxAttempts calls of fn failed with a retryable error, and not at all
\* otherwise.
C31_RetryCallbacks ==
  /\ [](retryOptions.onRetry =>
          /\ Len(OnRetryCalls) =
               (IF retryPc = "sleep" THEN invoked.started
                ELSE IF invoked.started = 0 THEN 0 ELSE invoked.started - 1)
          /\ \A i \in 1..Len(OnRetryCalls) :
               OnRetryCalls[i] = <<"onRetry", invoked.thrown[i], i>>)
  /\ []((retryPc = "done" /\ settled.status = "rejected")
         => Len(OnRetryCalls) < Len(invoked.thrown) \/ invoked.thrown = <<>>)
  /\ [](retryOptions.onMaxRetriesExceeded =>
          /\ retryPc # "done" => OnMaxRetriesExceededCalls = <<>>
          /\ retryPc = "done" =>
               IF /\ retryOptions.maxAttempts >= 1
                  /\ Len(invoked.thrown) = retryOptions.maxAttempts
                  /\ AllRetryable(invoked.thrown, retryOptions)
               THEN OnMaxRetriesExceededCalls =
                      << <<"onMaxRetriesExceeded",
                           invoked.thrown[Len(invoked.thrown)],
                           retryOptions.maxAttempts>> >>
               ELSE OnMaxRetriesExceededCalls = <<>>)
  /\ [](~retryOptions.onRetry => OnRetryCalls = <<>>)
  /\ [](~retryOptions.onMaxRetriesExceeded => OnMaxRetriesExceededCalls = <<>>)

\* C31 witness: with maxAttempts 3 and both callbacks, fn failed three times
\* with a retryable error: onRetry was called for the first and the second
\* failure, onMaxRetriesExceeded for the third
C31_Witness ==
  /\ retryPc = "done"
  /\ retryOptions.maxAttempts = 3
  /\ invoked = [started |-> 3,
                thrown |-> <<DatabaseError, TimeoutError, DatabaseError>>]
  /\ callbacks = << <<"onRetry", DatabaseError, 1>>,
                    <<"onRetry", TimeoutError, 2>>,
                    <<"onMaxRetriesExceeded", DatabaseError, 3>> >>

\* C32: an addError of a signal whose key is not in the store while some
\* cached entry's signal scores at least the threshold against it returns
\* isDuplicate = true with the first such entry in the Map's order; that
\* entry's count is one more and its lastOccurrence is now, its key, signal
\* and timestamp are as before, every other entry is as before and in place,
\* and there is no entry for the signal's own key.
C32_SimilarityFold ==
  [][LET s == result'.error
         hits == {i \in 1..Len(cache) : Similar(s, cache[i].error)}
     IN (/\ result'.op = "addError" /\ AddError(s)
         /\ defaultKeyGenerator(s) \notin KeysOf(cache)
         /\ hits # {})
          => LET first == CHOOSE i \in hits : \A j \in hits : i <= j
             IN /\ Len(cache') = Len(cache)
                /\ \A j \in 1..Len(cache) : j # first => cache'[j] = cache[j]
                /\ cache'[first] = [cache[first] EXCEPT !.count = @ + 1,
                                                        !.lastOccurrence = now]
                /\ defaultKeyGenerator(s) \notin KeysOf(cache')
                /\ result'.isDuplicate
                /\ result'.cachedError = cache'[first]]_vars

\* C32 witness: a signal like both cached entries was folded into the first
C32_Witness ==
  /\ result.op = "addError" /\ result.isDuplicate
  /\ Len(cache) = 2
  /\ defaultKeyGenerator(result.error) \notin KeysOf(cache)
  /\ Similar(result.error, cache[1].error)
  /\ Similar(result.error, cache[2].error)
  /\ result.cachedError = cache[1]
  /\ cache[1].count = 2

\* C33: every entry that an insertion removes for capacity, that is without
\* its being older than ttl, has a timestamp that is at most the timestamp
\* of every entry the insertion leaves, whatever the counts and the
\* lastOccurrences are: an entry matched again and again goes before a
\* newer entry seen once.
C33_EvictsOldestFirstSeen ==
  [][Inserting
       => LET before == Append(cache, result'.cachedError)
          IN \A i \in 1..Len(before) :
               (/\ before[i].key \notin KeysOf(cache')
                /\ ~(now' - before[i].timestamp > options.ttl))
                 => \A j \in 1..Len(cache') :
                      before[i].timestamp <= cache'[j].timestamp]_vars

\* C33 witness: a signal was added twice and then evicted by the insertion
\* of another, seen once, which is the one entry left
C33_Witness ==
  /\ result.op = "addError" /\ ~result.isDuplicate
  /\ options.maxSize = 1
  /\ calls.pure /\ calls.evicted
  /\ calls.sigs = <<S1, S1, S5>>
  /\ cache = <<result.cachedError>>
  /\ result.cachedError.count = 1

\* C34: right after an addError call the store holds, under the key of the
\* entry the call returned, that very entry, whether the call folded the
\* signal into an entry or created one, and a getError of that key made
\* next returns it: the cleanup of an insertion does not remove the entry
\* just inserted.
C34_ReturnedEntryRetrievable ==
  /\ [](result.op = "addError"
          => /\ MapGet(cache, result.cachedError.key) # 0
             /\ cache[MapGet(cache, result.cachedError.key)] = result.cachedError)
  /\ [][(/\ result.op = "addError"
          /\ result'.op = "getError"
          /\ result'.deduplicationKey = result.cachedError.key
          /\ GetError(result.cachedError.key))
         => result'.hasEntry /\ result'.cachedError = result.cachedError]_vars

\* C35: an isDuplicate(e) returns what the isDuplicate of an addError(e)
\* made next returns; on an empty store isDuplicate returns false, and for
\* the signal of the addError made just before it returns true.
C35_IsDuplicateAgrees ==
  /\ [][(/\ result.op = "isDuplicate"
          /\ result'.op = "addError"
          /\ result'.error = result.error
          /\ AddError(result.error))
         => result'.isDuplicate = result.isDuplicate]_vars
  /\ []((result.op = "isDuplicate" /\ cache = <<>>) => ~result.isDuplicate)
  /\ [][(/\ result.op = "addError"
          /\ result'.op = "isDuplicate"
          /\ result'.error = result.error)
         => result'.isDuplicate]_vars

\* the context as the key holds it
SerializedContext(error) ==
  IF error.hasContext THEN JsonStringify(error.context) ELSE <<>>

\* C36: an addError that finds the signal's own key in the store finds it
\* with a signal of the same code, the same message and the same serialized
\* context: signals that differ in one of the three have different keys.
C36_KeyInjectivity ==
  (/\ result.op = "addError"
   /\ result.cachedError.key = defaultKeyGenerator(result.error))
    => /\ result.cachedError.error.code = result.error.code
       /\ result.cachedError.error.message = result.error.message
       /\ SerializedContext(result.cachedError.error)
            = SerializedContext(result.error)

\* C37: in every state, that is after every set, setBatch, get, has,
\* getBatch, delete, clear, destroy and timer sweep, no key occurs twice in
\* accessOrder, and the keys in accessOrder are the keys of the cache Map.
C37_IndexConsistency ==
  /\ \A i, j \in 1..Len(accessOrder) :
       accessOrder[i] = accessOrder[j] => i = j
  /\ {accessOrder[i] : i \in 1..Len(accessOrder)} = KeysOf(lruCache)

\* C37 witness: a get has made the key set first the most recently used of
\* two, so that accessOrder lists the keys in another order than the Map
C37_Witness ==
  /\ lruResult.op = "get" /\ lruResult.found
  /\ Len(lruCache) = 2
  /\ accessOrder = <<lruCache[2].key, lruCache[1].key>>

\* C38: a set of a key the cache holds replaces that key's entry by one
\* with count 1 and timestamp now and makes the key the most recently used;
\* the cache holds the same keys afterwards, also when it held maxSize
\* entries.
C38_OverwriteDoesNotEvict ==
  [][(/\ lruResult'.op = "set"
      /\ Set(lruResult'.key, lruResult'.value)
      /\ lruResult'.key \in KeysOf(lruCache))
     => /\ KeysOf(lruCache') = KeysOf(lruCache)
        /\ Len(lruCache') = Len(lruCache)
        /\ lruCache'[MapGet(lruCache', lruResult'.key)].count = 1
        /\ lruCache'[MapGet(lruCache', lruResult'.key)].timestamp = now
        /\ accessOrder'[Len(accessOrder')] = lruResult'.key]_vars

\* C39: after every updateOptions call, whatever options it passes and
\* whether or not they differ from the ones in force, the cache is empty
\* and its statistics report totalErrors = 0, and a processError made next
\* returns isDuplicate = false; enable() and disable() leave the cache as
\* it is.
C39_UpdateOptionsResets ==
  /\ [](result.op = "updateOptions"
          => cache = <<>> /\ getStats(cache).totalErrors = 0)
  /\ [][(result.op = "updateOptions" /\ result'.op = "processError")
         => ~result'.isDuplicate]_vars
  /\ [][result'.op \in {"enable", "disable"} => cache' = cache]_vars

\* C39 witness: an updateOptions call on an enabled service whose cache
\* held two entries left the service enabled and the cache empty
C39_Witness ==
  /\ result.op = "updateOptions"
  /\ result.cleared = 2
  /\ enabled
  /\ cache = <<>>

\* the last step of the breaker was an execute that called fn
Admitted == breakerResult.op = "execute" /\ breakerResult.invoked
\* the clock cannot reach the time of the next attempt
ClockOut == nextAttemptTime # Undefined /\ nextAttemptTime > MaxTime
\* an fn is in flight and the counters leave it no way to settle
CountersOut ==
  /\ inFlight > 0
  /\ successCount >= MaxBreakerCount
  /\ failureCount >= MaxBreakerCount

\* C40: when time keeps advancing, callers keep calling execute and every
\* fn that was started settles, an OPEN or HALF_OPEN breaker whose last
\* step was not an execute that called fn comes to an execute that calls
\* fn, as long as the clock can reach the time of the next attempt and the
\* counters let the calls in flight settle.
C40_NotRejectedForever ==
  (state \in {"OPEN", "HALF_OPEN"} /\ ~Admitted)
    ~> (Admitted \/ ClockOut \/ CountersOut)

\* C40 witness: a breaker that opened, failed its trial call and opened
\* again has let a call through at the second time of the next attempt
C40_Witness ==
  /\ Admitted
  /\ breakerResult.from = "OPEN"
  /\ breakerOptions.failureThreshold = 1
  /\ failureCount = 2
  /\ breakerResult.at = 2 * TickMs
  /\ state = "HALF_OPEN"
====
